---- MODULE Spec2Model ----
(***************************************************************************)
(* A model of the widget core of the Final Cut toolkit (src/fwidget.cpp):  *)
(* the focus flags and the global focus pointer, tab-order traversal, the  *)
(* cancelable focus-transfer protocol, show/hide, key-press bubbling and   *)
(* the callback registry; and the geometry of a second, deeper tree: the   *)
(* position and size setters, the layout recompute (adjustSize) with       *)
(* insufficientSpaceAdjust, and resize.                                    *)
(*                                                                         *)
(* Every operation of the program is one action.  An operation is written  *)
(* as an operator from a program state (a record of all mutable fields) to *)
(* the program state after it, so that nested calls (hide -> focusPrevChild*)
(* -> changeFocus -> setFocus -> unsetFocus) are composed as in the code.  *)
(* Virtual handlers (onFocusOut, onKeyPress, ...) are modelled by their    *)
(* only protocol-relevant effect: whether the event is accepted afterwards.*)
(***************************************************************************)
EXTENDS Integers, Sequences, FiniteSets, TLC

\* ------------------------------------------------------------------ bounds
\* Number of children of the common parent (the siblings of the tab order).
NumSiblings == 3
\* Maximal number of entries in each of the two callback registries.
MaxCallbacks == 3
\* Maximal number of operations in one run of the focus model.
MaxOps == 4
\* Maximal number of operations before the key press of the key-press model.
MaxKeyOps == 2

\* ------------------------------------------------------------- widget tree
\* The tree is  root -> par -> w1 .. wN : the root object, one container and
\* its children in insertion order.  Every child is a widget (isWidget()).
NoWidget == "none"
Root == "root"
Par == "par"
SibNames == <<"w1", "w2", "w3", "w4", "w5">>
Siblings == {SibNames[i] : i \in 1..NumSiblings}
Widgets == {Root, Par} \cup Siblings

\* FWidget::getParentWidget
getParentWidget(w) ==
  IF w = Root THEN NoWidget ELSE IF w = Par THEN Root ELSE Par

\* FObject's child list of w (FObject::begin() .. FObject::end())
Children(w) ==
  IF w = Root THEN <<Par>>
  ELSE IF w = Par THEN SubSeq(SibNames, 1, NumSiblings)
  ELSE <<>>

hasChildren(w) == Len(Children(w)) > 0
hasParent(w) == getParentWidget(w) # NoWidget
isRootWidget(w) == w = Root

\* Kinds of widget: an ordinary widget, a window, a dialog (a window too).
Kinds == {"widget", "window", "dialog"}

VARIABLES
  \* ---- per-widget flags (FWidget::flags)
  active,       \* flags.active
  visible,      \* flags.visible
  shown,        \* flags.shown
  hidden,       \* flags.hidden
  focus,        \* flags.focus
  focusable,    \* flags.focusable (set by the widget's class at construction)
  kind,         \* the widget's class: "widget", "window" or "dialog"
  \* ---- process-wide state
  focus_widget,          \* FWidget::getFocusWidget()
  redraw_root_widget,    \* FWidget::redraw_root_widget
  show_root_widget,      \* FWidget::show_root_widget
  init_desktop,          \* FWidget::init_desktop
  active_window,         \* the window for which isWindowActive() holds
  window_focus_widget,   \* per window: FWindow::getWindowFocusWidget()
  \* ---- the callback registries of one widget
  callback_objects,          \* free-standing handlers, in registration order
  member_callback_objects,   \* instance-bound handlers, in registration order
  invoked,                   \* the handler calls of the last emitCallback
  \* ---- observation of the last operation
  log,          \* handler invocations and calls of the last operation, in order
  ret,          \* its return value
  lastOp,       \* the operation and its arguments
  hung,         \* the operation entered a loop it never leaves
  ops,          \* number of operations performed so far
  \* ---- geometry of the widgets of the layout tree
  wsize,                 \* requested rectangle (parent-relative)
  adjust_wsize,          \* adjusted rectangle
  offset,                \* available offset (terminal coordinates)
  client_offset,         \* client offset
  double_flatline_mask,  \* lengths of the top, right, bottom, left masks
  padding,               \* top, right, bottom, left padding
  size_hints,            \* min_width, max_width, min_height, max_height
  ignore_padding,        \* the widget ignores its parent's padding
  child_print_area,      \* the widget owns a child print area
  dialog,                \* the window of the layout tree is a dialog
  desktop,               \* detected terminal size (columns, lines)
  geoOp,                 \* the last geometry operation and its arguments
  pre,                   \* the geometry when that operation was called
  \* ---- print areas of the widgets of a parent chain
  vwin,                  \* the widget owns a private window buffer
  child_area,            \* the widget owns a child print area
  print_area,            \* the widget's current print area (its cache)
  paCall,                \* the last print-area call and what it returned
  \* ---- accelerators and the application's pointers and lists
  accelerator_list,      \* per widget: its accelerator table
  statusbar,             \* FWidget::statusbar
  menubar,               \* FWidget::menubar
  close_widget,          \* FWidget::close_widget, the pending-close list
  clicked_widget,        \* FWidget::getClickedWidget()
  main_widget,           \* FWidget::getMainWidget()
  modal,                 \* flags.modal
  \* ---- the root object and the registries FWidget::init creates
  rootObject,            \* FWidget::rootObject
  modal_dialog_counter,  \* FWidget::modal_dialog_counter
  widget_lists,          \* window_list, dialog_list, always_on_top_list
  constructed,           \* the last constructor call and how it ended
  menu,                  \* the widgets for which isMenuWidget() holds
  \* ---- the progress bar
  percentage             \* FProgressbar::percentage

flagVars == <<active, visible, shown, hidden, focus, focusable, kind>>
globalVars == <<focus_widget, redraw_root_widget, show_root_widget,
                init_desktop, active_window, window_focus_widget>>
cbVars == <<callback_objects, member_callback_objects, invoked>>
obsVars == <<log, ret, lastOp, hung, ops>>
geoVars == <<wsize, adjust_wsize, offset, client_offset,
             double_flatline_mask, desktop>>
geoStatic == <<padding, size_hints, ignore_padding, child_print_area, dialog>>
geoObs == <<geoOp, pre>>
geoAll == <<geoVars, geoStatic, geoObs>>
paVars == <<vwin, child_area, print_area, paCall>>
appVars == <<accelerator_list, statusbar, menubar, close_widget,
             clicked_widget, main_widget, modal>>
extVars == <<rootObject, modal_dialog_counter, widget_lists, constructed,
             menu,
             percentage>>
vars == <<flagVars, globalVars, cbVars, obsVars, geoVars, geoStatic, geoObs,
          paVars, appVars, extVars>>

\* ---------------------------------------------------------- program state
\* The mutable program state as one record, threaded through the operations.
State ==
  [ active |-> active, visible |-> visible, shown |-> shown,
    hidden |-> hidden, focus |-> focus,
    focus_widget |-> focus_widget,
    redraw_root_widget |-> redraw_root_widget,
    show_root_widget |-> show_root_widget,
    init_desktop |-> init_desktop,
    active_window |-> active_window,
    window_focus_widget |-> window_focus_widget,
    log |-> <<>>, ret |-> FALSE, hung |-> FALSE ]

\* An entry of the log: what happened, to which widget, and (for a handler)
\* whether the event was accepted after the handler returned.
Ev(what, w, acc) == [ev |-> what, to |-> w, acc |-> acc]
Logged(s, what, w) == [s EXCEPT !.log = Append(@, Ev(what, w, FALSE))]
Handled(s, what, w, acc) == [s EXCEPT !.log = Append(@, Ev(what, w, acc))]

isWindowWidget(w) == kind[w] \in {"window", "dialog"}
isDialogWidget(w) == kind[w] = "dialog"

\* FWindow::getWindowWidget: the nearest window at or above w, if any
RECURSIVE getWindowWidget(_)
getWindowWidget(w) ==
  IF w = NoWidget THEN NoWidget
  ELSE IF isWindowWidget(w) THEN w
  ELSE getWindowWidget(getParentWidget(w))

\* The window list (every window registers itself on construction).
RECURSIVE SelectWindows(_)
SelectWindows(seq) ==
  IF seq = <<>> THEN <<>>
  ELSE (IF isWindowWidget(Head(seq)) THEN <<Head(seq)>> ELSE <<>>)
         \o SelectWindows(Tail(seq))
window_list == SelectWindows(Children(Root) \o Children(Par))

\* ------------------------------------------------------------------ redraw
RECURSIVE redraw(_, _), drawChildrenFrom(_, _, _), drawWindowsFrom(_, _),
          redrawDraw(_, _)

\* FWidget::drawChildren, from child index i on
drawChildrenFrom(s, w, i) ==
  IF i > Len(Children(w)) THEN s
  ELSE LET c == Children(w)[i]
           s1 == IF s.shown[c] /\ ~isWindowWidget(c) THEN redraw(s, c) ELSE s
       IN drawChildrenFrom(s1, w, i + 1)

drawChildren(s, w) == drawChildrenFrom(s, w, 1)

\* FWidget::drawWindows, from window index i on
drawWindowsFrom(s, i) ==
  IF i > Len(window_list) THEN s
  ELSE LET c == window_list[i]
           s1 == IF s.shown[c] THEN redraw(s, c) ELSE s
       IN drawWindowsFrom(s1, i + 1)

drawWindows(s) == drawWindowsFrom(s, 1)

\* The end of FWidget::redraw: the widget that started the redraw updates
\* the terminal and clears redraw_root_widget.
redrawFinish(s, w) ==
  IF s.redraw_root_widget = w
  THEN [Logged(s, "flush", w) EXCEPT !.redraw_root_widget = NoWidget]
  ELSE s

\* FWidget::redraw after redraw_root_widget is set: nothing more for a widget
\* that is not shown, else the drawing and the end.
redrawDraw(s, w) ==
  IF ~isRootWidget(w) /\ ~s.shown[w] THEN s
  ELSE redrawFinish(IF isRootWidget(w) THEN drawWindows(s)
                    ELSE drawChildren(s, w), w)

\* FWidget::redraw
redraw(s, w) ==
  redrawDraw(Logged([s EXCEPT !.redraw_root_widget =
                                 IF @ = NoWidget THEN w ELSE @], "redraw", w),
             w)

\* ---------------------------------------------------------------- setFocus
\* FWidget::setFocus's "set window focus" part.  has_raised is the result of
\* window->raiseWindow().
setWindowFocus(s, w, window, has_raised) ==
  LET s1 == IF s.active_window # window
            THEN LET sa == [s EXCEPT !.active_window = window]
                 IN IF has_raised /\ sa.visible[window] /\ sa.shown[window]
                    THEN redraw(sa, window) ELSE sa
            ELSE s
  IN [s1 EXCEPT !.window_focus_widget[window] = w]

\* FWidget::setFocus(false) of the widget that loses the focus: enable is
\* false, so neither the "set widget focus" nor the "set window focus" part
\* runs.
unsetFocus(s, w) ==
  LET s0 == Logged(s, "unsetFocus", w)
  IN IF ~s0.active[w] THEN [s0 EXCEPT !.ret = FALSE]
     ELSE IF s0.focus[w] = FALSE THEN [s0 EXCEPT !.ret = TRUE]
     ELSE [s0 EXCEPT !.focus[w] = FALSE, !.ret = FALSE]

\* FWidget::setFocus(enable)
setFocus(s, w, enable, has_raised) ==
  IF ~enable THEN unsetFocus(s, w)
  ELSE
  LET s0 == Logged(s, "setFocus", w)
  IN IF ~s0.active[w] THEN [s0 EXCEPT !.ret = FALSE]
     ELSE IF s0.focus[w] = enable THEN [s0 EXCEPT !.ret = TRUE]
     ELSE LET last_focus == s0.focus_widget
              s1 == IF last_focus # NoWidget
                    THEN unsetFocus(s0, last_focus) ELSE s0
              s2 == [s1 EXCEPT !.focus_widget = w]
              window == getWindowWidget(w)
              s3 == IF window # NoWidget
                    THEN setWindowFocus(s2, w, window, has_raised) ELSE s2
          IN [s3 EXCEPT !.focus[w] = enable, !.ret = enable]

\* ------------------------------------------------------- tab-order search
\* FWidget::acceptFocus
acceptFocus(w) == focusable[w]

\* FWidget::numOfFocusableChildren, from child index i on
RECURSIVE numOfFocusableFrom(_, _, _)
numOfFocusableFrom(s, p, i) ==
  IF i > Len(Children(p)) THEN 0
  ELSE LET widget == Children(p)[i]
       IN (IF s.shown[widget] /\ acceptFocus(widget) /\ ~isWindowWidget(widget)
           THEN 1 ELSE 0) + numOfFocusableFrom(s, p, i + 1)

\* A count that takes children that are not shown as well.
numOfFocusableChildren_IgnoreShown(s, p) ==
  Cardinality({i \in 1..Len(Children(p)) :
                 acceptFocus(Children(p)[i])
                   /\ ~isWindowWidget(Children(p)[i])})

numOfFocusableChildren(s, p) ==
  IF ~hasChildren(p) THEN 0 ELSE numOfFocusableFrom(s, p, 1)

\* A loop condition that stops at candidates that are not shown.
skipCandidate_IgnoreShown(s, c) ==
  ~s.active[c] \/ ~acceptFocus(c) \/ isWindowWidget(c)

\* The loop condition of the sibling search: the candidate is passed over.
skipCandidate(s, c) ==
  ~s.active[c] \/ ~acceptFocus(c) \/ ~s.shown[c] \/ isWindowWidget(c)

\* The position of w in the child list kids (the outer loop of the search).
RECURSIVE indexOf(_, _, _)
indexOf(kids, w, i) ==
  IF i > Len(kids) THEN 0
  ELSE IF kids[i] = w THEN i ELSE indexOf(kids, w, i + 1)

\* The do-while loop of focusNextChild: step forward, wrapping from end() to
\* begin(), until a candidate is not passed over.  The loop's only state is
\* the position, so after Len(kids) fruitless steps it repeats for ever:
\* the result 0 stands for the loop that never exits.
RECURSIVE nextElement(_, _, _, _)
nextElement(s, kids, i, left) ==
  IF left = 0 THEN 0
  ELSE LET j == IF i + 1 > Len(kids) THEN 1 ELSE i + 1
       IN IF skipCandidate(s, kids[j])
          THEN nextElement(s, kids, j, left - 1) ELSE j

\* The do-while loop of focusPrevChild: step backward, wrapping from begin()
\* to end().
RECURSIVE prevElement(_, _, _, _)
prevElement(s, kids, i, left) ==
  IF left = 0 THEN 0
  ELSE LET j == IF i = 1 THEN Len(kids) ELSE i - 1
       IN IF skipCandidate(s, kids[j])
          THEN prevElement(s, kids, j, left - 1) ELSE j

\* ------------------------------------------------------------- changeFocus
\* The answers of the virtual handlers during one operation:
\*   out, cfo, fin : the focus-out / child-focus-out / focus-in event is
\*                   accepted when its handler returns
\*   raised        : window->raiseWindow() changed the stacking; the
\*                   follower of a transfer is never a window and has no
\*                   window above it in this tree, so the value is not read
\* The focus-in handler is asked only in a transfer that was not vetoed, so
\* its answer is enumerated only there.
Vetoed(in) == in.cfo \/ ~in.out
Answers ==
  {in \in [out : BOOLEAN, cfo : BOOLEAN, fin : BOOLEAN, raised : {FALSE}] :
     Vetoed(in) => in.fin}
\* A widget without siblings never starts a transfer: its handlers are not
\* asked.
AnswersAsked(w) ==
  IF Len(Children(getParentWidget(w))) > 1 THEN Answers
  ELSE {[out |-> TRUE, cfo |-> FALSE, fin |-> TRUE, raised |-> FALSE]}

\* The end of FWidget::changeFocus: if the focus-in event is accepted, both
\* widgets are redrawn and the terminal is updated.
focusInAccepted(s, this, follower, in) ==
  IF in.fin
  THEN Logged(redraw(redraw(s, this), follower), "flush", this)
  ELSE s

\* changeFocus without the parent's veto (the child-focus-out answer is not
\* consulted).
changeFocus_NoParentVeto(s, this, follower, parent, in) ==
  LET s0 == Logged(s, "changeFocus", follower)
      s1 == Handled(s0, "onFocusOut", this, in.out)
      s2 == Handled(s1, "onChildFocusOut", parent, in.cfo)
  IN IF in.out
     THEN IF follower = this THEN [s2 EXCEPT !.ret = FALSE]
          ELSE LET s3 == setFocus(s2, follower, TRUE, in.raised)
                   s4 == Handled(s3, "onChildFocusIn", parent, TRUE)
                   s5 == Handled(s4, "onFocusIn", follower, in.fin)
               IN [s5 EXCEPT !.ret = TRUE]
     ELSE [s2 EXCEPT !.ret = TRUE]

\* changeFocus that notifies the follower before the parent.
changeFocus_FocusInFirst(s, this, follower, parent, in) ==
  LET s0 == Logged(s, "changeFocus", follower)
      s1 == Handled(s0, "onFocusOut", this, in.out)
      s2 == Handled(s1, "onChildFocusOut", parent, in.cfo)
      out_accepted == IF in.cfo THEN FALSE ELSE in.out
  IN IF out_accepted
     THEN IF follower = this THEN [s2 EXCEPT !.ret = FALSE]
          ELSE LET s3 == setFocus(s2, follower, TRUE, in.raised)
                   s4 == Handled(s3, "onFocusIn", follower, in.fin)
                   s5 == Handled(s4, "onChildFocusIn", parent, TRUE)
               IN [s5 EXCEPT !.ret = TRUE]
     ELSE [s2 EXCEPT !.ret = TRUE]

\* changeFocus without the test for a follower that is the caller.
changeFocus_NoSelfCheck(s, this, follower, parent, in) ==
  LET s0 == Logged(s, "changeFocus", follower)
      s1 == Handled(s0, "onFocusOut", this, in.out)
      s2 == Handled(s1, "onChildFocusOut", parent, in.cfo)
      out_accepted == IF in.cfo THEN FALSE ELSE in.out
  IN IF out_accepted
     THEN LET s3 == setFocus(s2, follower, TRUE, in.raised)
              s4 == Handled(s3, "onChildFocusIn", parent, TRUE)
              s5 == Handled(s4, "onFocusIn", follower, in.fin)
          IN [s5 EXCEPT !.ret = TRUE]
     ELSE [s2 EXCEPT !.ret = TRUE]

\* FWidget::changeFocus.  The child-focus-out event is set to ignored before
\* it is sent, so in.cfo says that the parent's handler accepted it.
changeFocus(s, this, follower, parent, in) ==
  LET s0 == Logged(s, "changeFocus", follower)
      s1 == Handled(s0, "onFocusOut", this, in.out)
      s2 == Handled(s1, "onChildFocusOut", parent, in.cfo)
      out_accepted == IF in.cfo THEN FALSE ELSE in.out
  IN IF out_accepted
     THEN IF follower = this THEN [s2 EXCEPT !.ret = FALSE]
          ELSE LET s3 == setFocus(s2, follower, TRUE, in.raised)
                   s4 == Handled(s3, "onChildFocusIn", parent, TRUE)
                   s5 == Handled(s4, "onFocusIn", follower, in.fin)
               IN [focusInAccepted(s5, this, follower, in) EXCEPT !.ret = TRUE]
     ELSE [s2 EXCEPT !.ret = TRUE]

\* FWidget::focusNextChild
focusNextChild(s, this, in) ==
  LET parent == getParentWidget(this) IN
  IF isDialogWidget(this) \/ ~hasParent(this) THEN [s EXCEPT !.ret = FALSE]
  ELSE IF ~hasChildren(parent) \/ numOfFocusableChildren(s, parent) <= 1
  THEN [s EXCEPT !.ret = FALSE]
  ELSE LET kids == Children(parent)
           iter == indexOf(kids, this, 1)
           next == nextElement(s, kids, iter, Len(kids))
       IN IF next = 0 THEN [s EXCEPT !.hung = TRUE]
          ELSE changeFocus(s, this, kids[next], parent, in)

\* FWidget::focusPrevChild
focusPrevChild(s, this, in) ==
  LET parent == getParentWidget(this) IN
  IF isDialogWidget(this) \/ ~hasParent(this) THEN [s EXCEPT !.ret = FALSE]
  ELSE IF ~hasChildren(parent) \/ numOfFocusableChildren(s, parent) <= 1
  THEN [s EXCEPT !.ret = FALSE]
  ELSE LET kids == Children(parent)
           iter == indexOf(kids, this, 1)
           prev == prevElement(s, kids, iter, Len(kids))
       IN IF prev = 0 THEN [s EXCEPT !.hung = TRUE]
          ELSE changeFocus(s, this, kids[prev], parent, in)

\* --------------------------------------------------------------- show/hide
\* FWidget::hide
\* The body of hide's focus test: s is the state focusPrevChild left.
hideFocusToParent(s, this) ==
  IF s.hung \/ s.ret THEN s
  ELSE [(IF s.focus_widget # NoWidget THEN unsetFocus(s, s.focus_widget)
         ELSE s) EXCEPT !.focus_widget = getParentWidget(this)]

\* The focus test of FWidget::hide.
hideFocus(s, this, in) ==
  IF ~isDialogWidget(this) /\ s.focus_widget = this
  THEN hideFocusToParent(focusPrevChild(s, this, in), this)
  ELSE s

\* The hide event of FWidget::hide (not reached if focusPrevChild hangs).
hideEvent(s, this) ==
  IF s.hung THEN s ELSE Handled(s, "onHide", this, TRUE)

hide(s, this, in) ==
  IF ~s.visible[this] THEN [s EXCEPT !.hidden[this] = TRUE]
  ELSE hideEvent(hideFocus([s EXCEPT !.hidden[this] = TRUE,
                                     !.shown[this] = FALSE], this, in), this)

\* FWidget::setVisible
setVisible(s, w, enable) ==
  [s EXCEPT !.visible[w] = enable, !.ret = enable]

\* What the handlers of the show event do: the handler of the widget `on`
\* calls show() on the widget `calls`, every other handler returns at once.
NoHandler == [on |-> NoWidget, calls |-> NoWidget]
ShowHandlers ==
  {NoHandler} \cup [on : Widgets, calls : Widgets]

RECURSIVE show(_, _, _), showChildrenFrom(_, _, _, _)

\* The child loop of FWidget::show, from child index i on
showChildrenFrom(s, w, i, h) ==
  IF i > Len(Children(w)) THEN s
  ELSE LET widget == Children(w)[i]
           s1 == IF ~s.hidden[widget] THEN show(s, widget, h) ELSE s
       IN showChildrenFrom(s1, w, i + 1, h)

\* The end of the batch in FWidget::show
showFinish(s, this) ==
  IF s.show_root_widget # NoWidget /\ s.show_root_widget = this
  THEN [Logged(Logged(s, "finishTerminalUpdate", this), "flush", this)
          EXCEPT !.show_root_widget = NoWidget]
  ELSE s

\* Variant: the child loop is not run.
showChildren_None(s, this, h) == s

\* The child loop of FWidget::show
showChildren(s, this, h) == showChildrenFrom(s, this, 1, h)

\* The show event of FWidget::show and what its handler does
showEvent(s, this, h) ==
  IF h.on = this
  THEN show(Handled(s, "onShow", this, TRUE), h.calls, NoHandler)
  ELSE Handled(s, "onShow", this, TRUE)

\* FWidget::show
show(s, this, h) ==
  IF ~s.visible[this] THEN s
  ELSE LET s1 == IF ~s.init_desktop
                 THEN [Logged(s, "initScreenSettings", this)
                         EXCEPT !.init_desktop = TRUE]
                 ELSE s
           s2 == IF s1.show_root_widget = NoWidget
                 THEN [Logged(s1, "startTerminalUpdate", this)
                         EXCEPT !.show_root_widget = this]
                 ELSE s1
           s3 == [s2 EXCEPT !.hidden[this] = FALSE, !.shown[this] = TRUE]
       IN showEvent(showFinish(showChildren(s3, this, h), this), this, h)

\* ----------------------------------------------------------- KeyPressEvent
\* Fkey_down is handled by the branch of Fkey_right and Fkey_up by that of
\* Fkey_left; "other" is any key without a role in the navigation.
Keys == {"tab", "btab", "right", "down", "left", "up", "other"}

\* The while loop of FWidget::KeyPressEvent, at widget.  acc is the set of
\* widgets after whose onKeyPress the event is accepted.
RECURSIVE keyPressWalk(_, _, _, _, _, _)

\* The loop body after onKeyPress: an arrow key of an event that is not
\* accepted moves the focus; s.ret is accpt_focus afterwards.
keyPressArrow(s, this, accepted, key, in) ==
  IF accepted THEN [s EXCEPT !.ret = FALSE]
  ELSE IF key \in {"right", "down"} THEN focusNextChild(s, this, in)
  ELSE IF key \in {"left", "up"} THEN focusPrevChild(s, this, in)
  ELSE [s EXCEPT !.ret = FALSE]

\* The end of the loop body: return, or go on with the parent.
keyPressUp(s, this, widget, key, in, acc) ==
  IF s.hung \/ s.ret THEN s
  ELSE IF widget \in acc \/ isRootWidget(widget) THEN s
  ELSE keyPressWalk(s, this, getParentWidget(widget), key, in, acc)

keyPressWalk(s, this, widget, key, in, acc) ==
  IF widget = NoWidget THEN s
  ELSE keyPressUp(keyPressArrow(Handled(s, "onKeyPress", widget,
                                        widget \in acc),
                                this, widget \in acc, key, in),
                  this, widget, key, in, acc)

\* The tab and back-tab keys of FWidget::KeyPressEvent; s.ret is accpt_focus
\* afterwards.
keyPressTab(s, this, key, in) ==
  IF key = "tab" THEN focusNextChild(s, this, in)
  ELSE IF key = "btab" THEN focusPrevChild(s, this, in)
  ELSE [s EXCEPT !.ret = FALSE]

\* The return after the tab keys, or the loop from the widget itself.
keyPressLoop(s, this, key, in, acc) ==
  IF s.hung \/ s.ret THEN s
  ELSE keyPressWalk(s, this, this, key, in, acc)

\* FWidget::KeyPressEvent
KeyPressEvent(s, this, key, in, acc) ==
  keyPressLoop(keyPressTab(s, this, key, in), this, key, in, acc)

\* FWidget::setEnable
setEnable(s, w, enable) ==
  [s EXCEPT !.active[w] = enable, !.ret = enable]

\* ------------------------------------------------------- callback registry
\* Signal names, free-standing handlers, instances and their member handlers,
\* and payloads.
Signals == {"clicked", "toggled"}
Handlers == {"h1", "h2"}
Instances == {"i1", "i2"}
MemberHandlers == {"m1"}
Payloads == {"d1"}

\* FWidget::addCallback (function pointer)
addCallback(objs, cb_signal, cb_handler, data) ==
  Append(objs, [cb_signal |-> cb_signal, cb_handler |-> cb_handler,
                data |-> data])

\* FWidget::addCallback (member function pointer)
addMemberCallback(objs, cb_signal, cb_instance, cb_handler, data) ==
  Append(objs, [cb_signal |-> cb_signal, cb_instance |-> cb_instance,
                cb_handler |-> cb_handler, data |-> data])

\* A delCallback that erases the first entry of the handler only.
delCallback_FirstOnly(objs, cb_handler) ==
  LET hits == {i \in 1..Len(objs) : objs[i].cb_handler = cb_handler}
  IN IF hits = {} THEN objs
     ELSE LET first == CHOOSE i \in hits : \A j \in hits : i <= j
          IN SubSeq(objs, 1, first - 1) \o SubSeq(objs, first + 1, Len(objs))

\* The erase loop of FWidget::delCallback (FCallback)
RECURSIVE delCallback(_, _)
delCallback(objs, cb_handler) ==
  IF objs = <<>> THEN <<>>
  ELSE IF Head(objs).cb_handler = cb_handler
  THEN delCallback(Tail(objs), cb_handler)
  ELSE <<Head(objs)>> \o delCallback(Tail(objs), cb_handler)

\* The erase loop of FWidget::delCallback (FWidget*)
RECURSIVE delMemberCallback(_, _)
delMemberCallback(objs, cb_instance) ==
  IF objs = <<>> THEN <<>>
  ELSE IF Head(objs).cb_instance = cb_instance
  THEN delMemberCallback(Tail(objs), cb_instance)
  ELSE <<Head(objs)>> \o delMemberCallback(Tail(objs), cb_instance)

\* One handler call of emitCallback: the registry and position of the entry
\* and the entry itself.
Call(registry, i, entry) ==
  [registry |-> registry, index |-> i, entry |-> entry]

\* The two loops of FWidget::emitCallback, from position i on; calls is the
\* sequence of handler calls made so far.
RECURSIVE emitLoop(_, _, _, _, _)
emitLoop(calls, registry, objs, emit_signal, i) ==
  IF i > Len(objs) THEN calls
  ELSE emitLoop(IF objs[i].cb_signal = emit_signal
                THEN Append(calls, Call(registry, i, objs[i])) ELSE calls,
                registry, objs, emit_signal, i + 1)

\* An emitCallback that runs the function pointers first.
emitCallback_FreeFirst(emit_signal) ==
  LET free == emitLoop(<<>>, "free", callback_objects, emit_signal, 1)
  IN emitLoop(free, "member", member_callback_objects, emit_signal, 1)

\* FWidget::emitCallback: first the member function pointers, then the
\* function pointers.
emitCallback(emit_signal) ==
  LET members == emitLoop(<<>>, "member", member_callback_objects,
                          emit_signal, 1)
  IN emitLoop(members, "free", callback_objects, emit_signal, 1)

\* ------------------------------------------------------------ accelerators
\* FWidget::getRootWidget
RECURSIVE getRootWidget(_)
getRootWidget(w) ==
  IF isRootWidget(w) \/ getParentWidget(w) = NoWidget THEN w
  ELSE getRootWidget(getParentWidget(w))

\* The widgets that own an accelerator table: the root (FWidget::init) and
\* the windows.
hasAcceleratorList(w) == isRootWidget(w) \/ isWindowWidget(w)

\* The table addAccelerator and delAccelerator work on when called on the
\* widget this: that of the window of the widget from, or the root's if
\* there is none or it is the status bar or the menu bar.
acceleratorTable(this, from, sbar, mbar) ==
  IF getWindowWidget(from) = NoWidget \/ getWindowWidget(from) = sbar
       \/ getWindowWidget(from) = mbar
  THEN getRootWidget(this)
  ELSE getWindowWidget(from)

\* The erase loop of FWidget::delAccelerator
RECURSIVE eraseObject(_, _)
eraseObject(list, obj) ==
  IF list = <<>> THEN <<>>
  ELSE (IF Head(list).object = obj THEN <<>> ELSE <<Head(list)>>)
         \o eraseObject(Tail(list), obj)

\* FWidget::addAccelerator (key, obj) called on the widget this; a is the
\* accelerator tables of all widgets.
addAccelerator(a, this, key, obj) ==
  IF hasAcceleratorList(acceleratorTable(this, obj, statusbar, menubar))
  THEN [a EXCEPT ![acceleratorTable(this, obj, statusbar, menubar)] =
                   Append(@, [key |-> key, object |-> obj])]
  ELSE a

\* FWidget::delAccelerator (obj) called on the widget this
delAccelerator(a, this, obj) ==
  IF hasAcceleratorList(acceleratorTable(this, this, statusbar, menubar))
  THEN [a EXCEPT ![acceleratorTable(this, this, statusbar, menubar)] =
                   eraseObject(@, obj)]
  ELSE a

\* ------------------------------------------------------ close and destroy
\* The program state with the application's pointers and lists.
AppState ==
  [ active |-> active, visible |-> visible, shown |-> shown,
    hidden |-> hidden, focus |-> focus,
    focus_widget |-> focus_widget,
    redraw_root_widget |-> redraw_root_widget,
    show_root_widget |-> show_root_widget,
    init_desktop |-> init_desktop,
    active_window |-> active_window,
    window_focus_widget |-> window_focus_widget,
    log |-> <<>>, ret |-> FALSE, hung |-> FALSE,
    accelerator_list |-> accelerator_list,
    close_widget |-> close_widget,
    clicked_widget |-> clicked_widget,
    main_widget |-> main_widget ]

\* The end of FWidget::close for a widget that is not the main widget: s is
\* the state hide() left.
closePending(s, this) ==
  IF s.hung THEN s
  ELSE [(IF ~modal[this] THEN [s EXCEPT !.close_widget = Append(@, this)]
         ELSE s) EXCEPT !.ret = TRUE]

\* FWidget::close; accept: the close event is accepted by its handler.
close(s, this, accept, in) ==
  IF ~accept THEN [Handled(s, "onClose", this, FALSE) EXCEPT !.ret = FALSE]
  ELSE IF this = s.main_widget
  THEN [Logged(Handled(s, "onClose", this, TRUE), "quit", this)
          EXCEPT !.ret = TRUE]
  ELSE closePending(hide(Handled(s, "onClose", this, TRUE), this, in), this)

\* FWidget::finish
finish(s, this) == [Logged(s, "finish", this) EXCEPT !.close_widget = <<>>]

\* FWidget::~FWidget
destructor(s, this) ==
  LET s1 == Logged(Logged(Logged(s, "processDestroy", this),
                          "delCallbacks", this), "removeQueuedEvent", this)
      s2 == IF this = s1.clicked_widget
            THEN [s1 EXCEPT !.clicked_widget = NoWidget] ELSE s1
      s3 == IF s2.focus[this] /\ getWindowWidget(this) # NoWidget
            THEN [s2 EXCEPT !.window_focus_widget[getWindowWidget(this)] =
                              NoWidget]
            ELSE s2
      s4 == IF this = s3.focus_widget
            THEN [s3 EXCEPT !.focus_widget = NoWidget] ELSE s3
      s5 == IF this = s4.main_widget
            THEN [Logged(s4, "quit", this) EXCEPT !.main_widget = NoWidget]
            ELSE s4
      s6 == [s5 EXCEPT !.accelerator_list[this] = <<>>]
  IN IF isRootWidget(this) THEN finish(s6, this) ELSE s6

\* ------------------------------------------- focusFirstChild, focusLastChild
\* FWidget::isMenuWidget
isMenuWidget(w) == w \in menu

RECURSIVE focusFirstChild(_, _, _), focusFirstChildFrom(_, _, _, _)
RECURSIVE focusLastChild(_, _, _), focusLastChildFrom(_, _, _, _)

\* The loop of FWidget::focusFirstChild, from child index i on.  raised is
\* the result of raiseWindow() in setFocus.
focusFirstChildFrom(s, this, i, raised) ==
  IF i > Len(Children(this)) THEN [s EXCEPT !.ret = FALSE]
  ELSE LET widget == Children(this)[i]
       IN IF s.active[widget] /\ acceptFocus(widget) /\ ~isMenuWidget(widget)
          THEN LET s1 == setFocus(s, widget, TRUE, raised)
                   s2 == focusFirstChild(s1, widget, raised)
               IN IF Len(Children(widget)) >= 1
                  THEN IF ~s2.ret /\ isWindowWidget(widget)
                       THEN focusFirstChildFrom(s2, this, i + 1, raised)
                       ELSE [s2 EXCEPT !.ret = TRUE]
                  ELSE [s1 EXCEPT !.ret = TRUE]
          ELSE focusFirstChildFrom(s, this, i + 1, raised)

\* FWidget::focusFirstChild
focusFirstChild(s, this, raised) ==
  IF ~hasChildren(this) THEN [s EXCEPT !.ret = FALSE]
  ELSE focusFirstChildFrom(s, this, 1, raised)

\* The loop of FWidget::focusLastChild, from child index i down
focusLastChildFrom(s, this, i, raised) ==
  IF i < 1 THEN [s EXCEPT !.ret = FALSE]
  ELSE LET widget == Children(this)[i]
       IN IF s.active[widget] /\ acceptFocus(widget) /\ ~isMenuWidget(widget)
          THEN LET s1 == setFocus(s, widget, TRUE, raised)
                   s2 == focusLastChild(s1, widget, raised)
               IN IF Len(Children(widget)) >= 1
                  THEN IF ~s2.ret /\ isWindowWidget(widget)
                       THEN focusLastChildFrom(s2, this, i - 1, raised)
                       ELSE [s2 EXCEPT !.ret = TRUE]
                  ELSE [s1 EXCEPT !.ret = TRUE]
          ELSE focusLastChildFrom(s, this, i - 1, raised)

\* FWidget::focusLastChild
focusLastChild(s, this, raised) ==
  IF ~hasChildren(this) THEN [s EXCEPT !.ret = FALSE]
  ELSE focusLastChildFrom(s, this, Len(Children(this)), raised)

\* ------------------------------------------------------------- construction
\* A widget constructed while the program runs.
NewWidget == "new"

\* The process-wide state the constructor works on.
CtorState ==
  [ rootObject |-> rootObject,
    show_root_widget |-> show_root_widget,
    redraw_root_widget |-> redraw_root_widget,
    modal_dialog_counter |-> modal_dialog_counter,
    statusbar |-> statusbar,
    widget_lists |-> widget_lists,
    close_widget |-> close_widget,
    init_desktop |-> init_desktop,
    thrown |-> FALSE ]

\* FWidget::init: the lists are created anew and init_desktop is reset.
init(c) ==
  [c EXCEPT !.widget_lists = [window_list |-> <<>>, dialog_list |-> <<>>,
                              always_on_top_list |-> <<>>],
            !.close_widget = <<>>,
            !.init_desktop = FALSE]

\* The constructor's branch for a parentless widget when no root object
\* exists.
becomeRoot(c, this) ==
  init([c EXCEPT !.rootObject = this,
                 !.show_root_widget = NoWidget,
                 !.redraw_root_widget = NoWidget,
                 !.modal_dialog_counter = 0,
                 !.statusbar = NoWidget])

\* Variant: a parentless widget becomes the root object, whether one
\* exists or not.
constructor_NoCheck(c, this, parent) ==
  IF parent = NoWidget THEN becomeRoot(c, this) ELSE c

\* FWidget::FWidget.  With a parent only members of the new widget are
\* set.
constructor(c, this, parent) ==
  IF parent = NoWidget
  THEN IF c.rootObject # NoWidget THEN [c EXCEPT !.thrown = TRUE]
       ELSE becomeRoot(c, this)
  ELSE c

\* ------------------------------------------------------------ progress bar
\* std::size_t narrowed to SizeBits bits; NOT_SET is its largest value.
SizeBits == 16
NOT_SET == 2^SizeBits - 1

\* The widget of the tree that is the progress bar.
Bar == SibNames[1]

\* Variant: every value up to 100 is stored.
newPercentage_Always(p, percentage_value) ==
  IF percentage_value = NOT_SET THEN NOT_SET
  ELSE IF percentage_value > 100 THEN 100
  ELSE percentage_value

\* The percentage FProgressbar::setPercentage stores when the current one
\* is p.
newPercentage(p, percentage_value) ==
  IF percentage_value = NOT_SET THEN NOT_SET
  ELSE IF percentage_value > 100 THEN 100
  ELSE IF percentage_value <= p /\ p # NOT_SET THEN p
  ELSE percentage_value

\* The drawing at the end of setPercentage and reset
drawProgress(lg) ==
  (IF shown[Bar]
   THEN lg \o <<Ev("drawPercentage", Bar, FALSE), Ev("drawBar", Bar, FALSE)>>
   ELSE lg) \o <<Ev("updateTerminal", Bar, FALSE)>>

\* What FProgressbar::setPercentage logs: it returns before the drawing
\* when the value is not above the percentage set.
setPercentageLog(p, percentage_value) ==
  IF percentage_value # NOT_SET /\ percentage_value <= 100
       /\ percentage_value <= p /\ p # NOT_SET
  THEN <<>> ELSE drawProgress(<<>>)

\* ------------------------------------------------------------------ actions
\* Stores the flags and pointers of the program state s as the next state.
CommitState(s) ==
  /\ active' = s.active
  /\ visible' = s.visible
  /\ shown' = s.shown
  /\ hidden' = s.hidden
  /\ focus' = s.focus
  /\ focus_widget' = s.focus_widget
  /\ redraw_root_widget' = s.redraw_root_widget
  /\ show_root_widget' = s.show_root_widget
  /\ init_desktop' = s.init_desktop
  /\ active_window' = s.active_window
  /\ window_focus_widget' = s.window_focus_widget
  /\ log' = s.log
  /\ hung' = s.hung
  /\ UNCHANGED <<focusable, kind>>

\* Stores the program state s as the next state.
Commit(s) ==
  /\ CommitState(s)
  /\ UNCHANGED <<geoAll, paVars, appVars, extVars>>

\* The widget that holds the focus: the focus pointer designates it and its
\* focus flag is set.
Holder ==
  IF focus_widget # NoWidget /\ focus[focus_widget]
  THEN focus_widget ELSE NoWidget

\* The record of an operation: its name, the widget it is invoked on, its
\* argument, and the widget that held the focus when it was called.
Op(name, w, arg) ==
  [op |-> name, w |-> w, arg |-> arg, holder |-> Holder]
BoolName(b) == IF b THEN "true" ELSE "false"

\* A hung program takes no further step.
Running == ~hung

SetFocusAct(w, enable, raised) ==
  /\ Running
  /\ LET s == setFocus(State, w, enable, raised)
     IN Commit(s) /\ ret' = s.ret
  /\ lastOp' = Op("setFocus", w, BoolName(enable))
  /\ ops' = ops + 1
  /\ UNCHANGED cbVars

SetEnableAct(w, enable) ==
  /\ Running
  /\ LET s == setEnable(State, w, enable)
     IN Commit(s) /\ ret' = s.ret
  /\ lastOp' = Op("setEnable", w, BoolName(enable))
  /\ ops' = ops + 1
  /\ UNCHANGED cbVars

HideAct(w, in) ==
  /\ Running
  /\ Commit(hide(State, w, in)) /\ ret' = FALSE
  /\ lastOp' = Op("hide", w, "")
  /\ ops' = ops + 1
  /\ UNCHANGED cbVars

\* h: what the handlers of the show event do.
ShowAct(w, h) ==
  /\ Running
  /\ Commit(show(State, w, h)) /\ ret' = FALSE
  /\ lastOp' = Op("show", w, IF h = NoHandler THEN "" ELSE "handler")
  /\ ops' = ops + 1
  /\ UNCHANGED cbVars

RedrawAct(w) ==
  /\ Running
  /\ Commit(redraw(State, w)) /\ ret' = FALSE
  /\ lastOp' = Op("redraw", w, "")
  /\ ops' = ops + 1
  /\ UNCHANGED cbVars

SetVisibleAct(w, enable) ==
  /\ Running
  /\ LET s == setVisible(State, w, enable)
     IN Commit(s) /\ ret' = s.ret
  /\ lastOp' = Op("setVisible", w, BoolName(enable))
  /\ ops' = ops + 1
  /\ UNCHANGED cbVars

\* Stores the program state s, with the application's pointers and lists,
\* as the next state.
AppCommit(s) ==
  /\ CommitState(s)
  /\ accelerator_list' = s.accelerator_list
  /\ close_widget' = s.close_widget
  /\ clicked_widget' = s.clicked_widget
  /\ main_widget' = s.main_widget
  /\ UNCHANGED <<statusbar, menubar, modal>>
  /\ UNCHANGED <<geoAll, paVars, extVars>>

AddAcceleratorAct(this, key, obj) ==
  /\ Running
  /\ accelerator_list' = addAccelerator(accelerator_list, this, key, obj)
  /\ lastOp' = Op("addAccelerator", this, obj)
  /\ ops' = ops + 1
  /\ UNCHANGED <<flagVars, globalVars, cbVars, log, ret, hung, geoAll,
                 paVars, statusbar, menubar, close_widget, clicked_widget,
                 main_widget, modal, extVars>>

DelAcceleratorAct(this, obj) ==
  /\ Running
  /\ accelerator_list' = delAccelerator(accelerator_list, this, obj)
  /\ lastOp' = Op("delAccelerator", this, obj)
  /\ ops' = ops + 1
  /\ UNCHANGED <<flagVars, globalVars, cbVars, log, ret, hung, geoAll,
                 paVars, statusbar, menubar, close_widget, clicked_widget,
                 main_widget, modal, extVars>>

\* FWidget::setClickedWidget
SetClickedWidgetAct(w) ==
  /\ Running
  /\ clicked_widget' = w
  /\ lastOp' = Op("setClickedWidget", w, "")
  /\ ops' = ops + 1
  /\ UNCHANGED <<flagVars, globalVars, cbVars, log, ret, hung, geoAll,
                 paVars, accelerator_list, statusbar, menubar, close_widget,
                 main_widget, modal, extVars>>

CloseAct(w, accept, in) ==
  /\ Running
  /\ LET s == close(AppState, w, accept, in)
     IN AppCommit(s) /\ ret' = s.ret
  /\ lastOp' = Op("close", w, BoolName(accept))
  /\ ops' = ops + 1
  /\ UNCHANGED cbVars

\* The destructor of w; delCallbacks empties the callback registries.
DestroyAct(w) ==
  /\ Running
  /\ AppCommit(destructor(AppState, w)) /\ ret' = FALSE
  /\ callback_objects' = <<>>
  /\ member_callback_objects' = <<>>
  /\ lastOp' = Op("destroy", w, "")
  /\ ops' = ops + 1
  /\ UNCHANGED invoked

FocusFirstChildAct(w, raised) ==
  /\ Running
  /\ LET s == focusFirstChild(State, w, raised)
     IN Commit(s) /\ ret' = s.ret
  /\ lastOp' = Op("focusFirstChild", w, "")
  /\ ops' = ops + 1
  /\ UNCHANGED cbVars

FocusLastChildAct(w, raised) ==
  /\ Running
  /\ LET s == focusLastChild(State, w, raised)
     IN Commit(s) /\ ret' = s.ret
  /\ lastOp' = Op("focusLastChild", w, "")
  /\ ops' = ops + 1
  /\ UNCHANGED cbVars

\* The construction of a new widget with the given parent (none: a
\* parentless widget).
ConstructAct(parent) ==
  /\ Running
  /\ LET c == constructor(CtorState, NewWidget, parent)
     IN /\ rootObject' = c.rootObject
        /\ show_root_widget' = c.show_root_widget
        /\ redraw_root_widget' = c.redraw_root_widget
        /\ modal_dialog_counter' = c.modal_dialog_counter
        /\ statusbar' = c.statusbar
        /\ widget_lists' = c.widget_lists
        /\ close_widget' = c.close_widget
        /\ init_desktop' = c.init_desktop
        /\ constructed' = [parent |-> parent, thrown |-> c.thrown]
  /\ lastOp' = Op("construct", NewWidget, parent)
  /\ log' = <<>>
  /\ ops' = ops + 1
  /\ UNCHANGED <<flagVars, focus_widget, active_window, window_focus_widget,
                 cbVars, ret, hung, geoAll, paVars, accelerator_list, menubar,
                 clicked_widget, main_widget, modal, menu, percentage>>

\* FProgressbar::setPercentage
SetPercentageAct(percentage_value) ==
  /\ Running
  /\ percentage' = newPercentage(percentage, percentage_value)
  /\ log' = setPercentageLog(percentage, percentage_value)
  /\ lastOp' = Op("setPercentage", Bar, percentage_value)
  /\ UNCHANGED <<flagVars, globalVars, cbVars, ret, hung, ops, geoAll, paVars,
                 appVars, rootObject, modal_dialog_counter, widget_lists,
                 constructed, menu>>

\* FProgressbar::reset
ResetAct ==
  /\ Running
  /\ percentage' = NOT_SET
  /\ log' = drawProgress(<<>>)
  /\ lastOp' = Op("reset", Bar, NOT_SET)
  /\ UNCHANGED <<flagVars, globalVars, cbVars, ret, hung, ops, geoAll, paVars,
                 appVars, rootObject, modal_dialog_counter, widget_lists,
                 constructed, menu>>

FocusNextChildAct(w, in) ==
  /\ Running
  /\ LET s == focusNextChild(State, w, in)
     IN Commit(s) /\ ret' = s.ret
  /\ lastOp' = Op("focusNextChild", w, "")
  /\ ops' = ops + 1
  /\ UNCHANGED cbVars

FocusPrevChildAct(w, in) ==
  /\ Running
  /\ LET s == focusPrevChild(State, w, in)
     IN Commit(s) /\ ret' = s.ret
  /\ lastOp' = Op("focusPrevChild", w, "")
  /\ ops' = ops + 1
  /\ UNCHANGED cbVars

\* KeyPressEvent returns nothing: ret records accpt_focus at its return
\* (the key press was consumed by the tab-order navigation).
KeyPressAct(w, key, in, acc) ==
  /\ Running
  /\ LET s == KeyPressEvent(State, w, key, in, acc)
     IN Commit(s) /\ ret' = s.ret
  /\ lastOp' = Op("KeyPressEvent", w, key)
  /\ ops' = ops + 1
  /\ UNCHANGED cbVars

\* ================================================================ geometry
\* The layout tree is  root -> box -> (item, win -> pane) : the root object,
\* a container, an ordinary child, a window (or dialog) and a widget inside
\* the window.
Box == "box"
Item == "item"
Win == "win"
Pane == "pane"
LayoutWidgets == {Root, Box, Item, Win, Pane}

\* FWidget::getParentWidget in the layout tree
parentWidget(w) ==
  IF w = Root THEN NoWidget
  ELSE IF w = Box THEN Root
  ELSE IF w = Pane THEN Win
  ELSE Box

\* The child list of w in the layout tree
childWidgets(w) ==
  IF w = Root THEN <<Box>>
  ELSE IF w = Box THEN <<Item, Win>>
  ELSE IF w = Win THEN <<Pane>>
  ELSE <<>>

windowWidget(w) == w = Win
dialogWidget(w) == w = Win /\ dialog
\* FWidget::window_list of the layout tree
layout_windows == <<Win>>

\* ---- FRect: the corners (x1, y1) and (x2, y2)
Max(a, b) == IF a > b THEN a ELSE b
Min(a, b) == IF a < b THEN a ELSE b
FRect(x1, y1, x2, y2) == [x1 |-> x1, y1 |-> y1, x2 |-> x2, y2 |-> y2]
\* FRect{}: the empty rectangle
EmptyRect == FRect(0, 0, -1, -1)
\* FRect::setRect (x, y, width, height)
setRect(x, y, w, h) == FRect(x, y, x + w - 1, y + h - 1)
\* FRect::getWidth, FRect::getHeight: never negative
rectWidth(r) == Max(0, r.x2 - r.x1 + 1)
rectHeight(r) == Max(0, r.y2 - r.y1 + 1)
\* FRect::setX, setY, setPos: the rectangle moves, its extent is kept
rectSetX(r, x) == [r EXCEPT !.x1 = x, !.x2 = x + (r.x2 - r.x1)]
rectSetY(r, y) == [r EXCEPT !.y1 = y, !.y2 = y + (r.y2 - r.y1)]
\* FRect::setWidth, setHeight: the far corner moves
rectSetWidth(r, w) == [r EXCEPT !.x2 = r.x1 + w - 1]
rectSetHeight(r, h) == [r EXCEPT !.y2 = r.y1 + h - 1]

\* ---- the geometry state as one record, threaded through the operations
GeoState ==
  [ wsize |-> wsize, adjust_wsize |-> adjust_wsize, offset |-> offset,
    client_offset |-> client_offset, mask |-> double_flatline_mask,
    desktop |-> desktop, log |-> <<>>, hung |-> FALSE ]

\* FWidget::getX, getY, getWidth, getHeight: of the adjusted rectangle
getX(g, w) == g.adjust_wsize[w].x1
getY(g, w) == g.adjust_wsize[w].y1
getWidth(g, w) == rectWidth(g.adjust_wsize[w])
getHeight(g, w) == rectHeight(g.adjust_wsize[w])
\* FWidget::getTermX, getTermY: the position on the terminal
getTermX(g, w) == g.offset[w].x1 + getX(g, w)
getTermY(g, w) == g.offset[w].y1 + getY(g, w)

\* ---- insufficientSpaceAdjust
\* One step of the "move left" loop: both corners move, the near one not
\* below 1.
stepLeft(r) == [r EXCEPT !.x1 = Max(1, r.x1 - 1), !.x2 = r.x2 - 1]
stepUp(r) == [r EXCEPT !.y1 = Max(1, r.y1 - 1), !.y2 = r.y2 - 1]

\* The loop "move left if not enough space".  At x1 = 1 and width 0 a step
\* changes neither getTermX() nor getWidth(): the loop never exits.
RECURSIVE moveLeft(_, _)
moveLeft(g, w) ==
  IF getTermX(g, w) + getWidth(g, w) - padding[w].right
       > g.offset[w].x2 + 2
  THEN IF g.adjust_wsize[w].x1 = 1 /\ getWidth(g, w) = 0
       THEN [g EXCEPT !.hung = TRUE]
       ELSE moveLeft([g EXCEPT !.adjust_wsize[w] = stepLeft(@)], w)
  ELSE g

\* The loop "move up if not enough space"
RECURSIVE moveUp(_, _)
moveUp(g, w) ==
  IF g.hung THEN g
  ELSE IF getTermY(g, w) + getHeight(g, w) - padding[w].bottom
            > g.offset[w].y2 + 2
  THEN IF g.adjust_wsize[w].y1 = 1 /\ getHeight(g, w) = 0
       THEN [g EXCEPT !.hung = TRUE]
       ELSE moveUp([g EXCEPT !.adjust_wsize[w] = stepUp(@)], w)
  ELSE g

\* The loop "reduce the width if not enough space".  At width 0 a step does
\* not change getWidth(): the loop never exits.
RECURSIVE reduceWidth(_, _)
reduceWidth(g, w) ==
  IF g.hung THEN g
  ELSE IF g.offset[w].x1 + getWidth(g, w) - 1 > g.offset[w].x2
  THEN IF getWidth(g, w) = 0 THEN [g EXCEPT !.hung = TRUE]
       ELSE reduceWidth([g EXCEPT !.adjust_wsize[w].x2 = @ - 1], w)
  ELSE g

\* The loop "reduce the height if not enough space"
RECURSIVE reduceHeight(_, _)
reduceHeight(g, w) ==
  IF g.hung THEN g
  ELSE IF g.offset[w].y1 + getHeight(g, w) - 1 > g.offset[w].y2
  THEN IF getHeight(g, w) = 0 THEN [g EXCEPT !.hung = TRUE]
       ELSE reduceHeight([g EXCEPT !.adjust_wsize[w].y2 = @ - 1], w)
  ELSE g

\* Variant: without the floor of 1 for the width.
floorWidth_None(g, w) == g

\* if ( getWidth() == 0 ) adjust_wsize.setWidth(1)
floorWidth(g, w) ==
  IF ~g.hung /\ getWidth(g, w) = 0
  THEN [g EXCEPT !.adjust_wsize[w] = rectSetWidth(@, 1)] ELSE g

\* if ( getWidth() < size_hints.min_width ) adjust_wsize.setWidth(min_width)
minWidth(g, w) ==
  IF ~g.hung /\ getWidth(g, w) < size_hints[w].min_width
  THEN [g EXCEPT !.adjust_wsize[w] = rectSetWidth(@, size_hints[w].min_width)]
  ELSE g

\* if ( getHeight() == 0 ) adjust_wsize.setHeight(1)
floorHeight(g, w) ==
  IF ~g.hung /\ getHeight(g, w) = 0
  THEN [g EXCEPT !.adjust_wsize[w] = rectSetHeight(@, 1)] ELSE g

\* if ( getHeight() < size_hints.min_height )
\*   adjust_wsize.setWidth(size_hints.min_height)     -- the width is set
minHeight(g, w) ==
  IF ~g.hung /\ getHeight(g, w) < size_hints[w].min_height
  THEN [g EXCEPT !.adjust_wsize[w] = rectSetWidth(@, size_hints[w].min_height)]
  ELSE g

\* Variant: windows are moved and shrunk like every other widget.
insufficientSpaceAdjust_Windows(g, w) ==
  floorHeight(minHeight(reduceHeight(
    floorWidth(minWidth(reduceWidth(
      moveUp(moveLeft(g, w), w), w), w), w), w), w), w)

\* FWidget::insufficientSpaceAdjust
insufficientSpaceAdjust(g, w) ==
  IF windowWidget(w) THEN g
  ELSE floorHeight(minHeight(reduceHeight(
         floorWidth(minWidth(reduceWidth(
           moveUp(moveLeft(g, w), w), w), w), w), w), w), w)

\* ---- adjustSize
GeoLogged(g, what, w) == [g EXCEPT !.log = Append(@, Ev(what, w, FALSE))]

\* FWidget::setTermOffset: the whole terminal
termOffset(g) ==
  FRect(0, 0, getWidth(g, Root) - 1, getHeight(g, Root) - 1)

\* Variant: every widget gets the client offset of its parent.
newOffset_ParentClient(g, w) == g.client_offset[parentWidget(w)]

\* The offset adjustSize gives a widget that is not the root
newOffset(g, w) ==
  IF windowWidget(w)
  THEN IF ignore_padding[w] /\ ~dialogWidget(w) THEN termOffset(g)
       ELSE g.client_offset[Root]
  ELSE IF ignore_padding[w]
  THEN FRect(getTermX(g, parentWidget(w)) - 1,
             getTermY(g, parentWidget(w)) - 1,
             getTermX(g, parentWidget(w)) + getWidth(g, parentWidget(w)) - 2,
             getTermY(g, parentWidget(w)) + getHeight(g, parentWidget(w)) - 2)
  ELSE g.client_offset[parentWidget(w)]

\* The first part of adjustSize: offset and adjusted rectangle
setOffset(g, w) ==
  IF isRootWidget(w) THEN g
  ELSE [g EXCEPT !.offset[w] = newOffset(g, w),
                 !.adjust_wsize[w] = g.wsize[w]]

\* client_offset.setCoordinates (...) of adjustSize and setGeometry
clientOffset(g, w) ==
  FRect(getTermX(g, w) - 1 + padding[w].left,
        getTermY(g, w) - 1 + padding[w].top,
        getTermX(g, w) - 2 + getWidth(g, w) - padding[w].right,
        getTermY(g, w) - 2 + getHeight(g, w) - padding[w].bottom)

\* Variant: the client offset is left as it was.
setClientOffset_Stale(g, w) == g

setClientOffset(g, w) ==
  IF g.hung THEN g ELSE [g EXCEPT !.client_offset[w] = clientOffset(g, w)]

RECURSIVE adjustSize(_, _), adjustChildrenFrom(_, _, _)
RECURSIVE adjustChildrenFrom_Windows(_, _, _)

\* Variant: the child loop runs the layout pass of window children too.
adjustChildrenFrom_Windows(g, w, i) ==
  IF g.hung \/ i > Len(childWidgets(w)) THEN g
  ELSE adjustChildrenFrom_Windows(adjustSize(g, childWidgets(w)[i]), w, i + 1)

\* The child loop of adjustSize, from child index i on
adjustChildrenFrom(g, w, i) ==
  IF g.hung \/ i > Len(childWidgets(w)) THEN g
  ELSE adjustChildrenFrom(
         IF ~windowWidget(childWidgets(w)[i])
         THEN adjustSize(g, childWidgets(w)[i]) ELSE g, w, i + 1)

\* FWidget::adjustSize
adjustSize(g, w) ==
  adjustChildrenFrom(
    setClientOffset(
      IF ~child_print_area[w]
      THEN insufficientSpaceAdjust(setOffset(GeoLogged(g, "adjustSize", w),
                                             w), w)
      ELSE setOffset(GeoLogged(g, "adjustSize", w), w), w), w, 1)

\* FWidget::adjustSizeGlobal, from window index i on
RECURSIVE adjustWindowsFrom(_, _)
adjustWindowsFrom(g, i) ==
  IF g.hung \/ i > Len(layout_windows) THEN g
  ELSE adjustWindowsFrom(adjustSize(g, layout_windows[i]), i + 1)

adjustSizeGlobal(g) == adjustWindowsFrom(g, 1)

\* ---- geometry setters
\* Variant: the position is stored as passed.
clampPos_None(w, x) == x

\* if ( ! isWindowWidget() && x < 1 ) x = 1
clampPos(w, x) == IF ~windowWidget(w) /\ x < 1 THEN 1 ELSE x

\* std::min (width, size_hints.max_width); std::max (width, min_width)
clampWidth(w, width) ==
  Max(Min(width, size_hints[w].max_width), size_hints[w].min_width)

clampHeight(w, height) ==
  Max(Min(height, size_hints[w].max_height), size_hints[w].min_height)

\* if ( adjust ) adjustSize()
adjustIf(g, w, adjust) == IF adjust THEN adjustSize(g, w) ELSE g

\* double_flatline_mask.top/bottom.resize (getWidth(), false)
resizeWidthMasks(g, w) ==
  IF g.hung THEN g
  ELSE [g EXCEPT !.mask[w].top = getWidth(g, w),
                 !.mask[w].bottom = getWidth(g, w)]

\* double_flatline_mask.right/left.resize (getHeight(), false)
resizeHeightMasks(g, w) ==
  IF g.hung THEN g
  ELSE [g EXCEPT !.mask[w].right = getHeight(g, w),
                 !.mask[w].left = getHeight(g, w)]

\* Variant: returns early when the adjusted x alone equals the argument.
setX_AdjustedOnly(g, w, x, adjust) ==
  IF getX(g, w) = x THEN g
  ELSE adjustIf([g EXCEPT !.wsize[w] = rectSetX(@, clampPos(w, x)),
                          !.adjust_wsize[w] = rectSetX(@, clampPos(w, x))],
                w, adjust)

\* FWidget::setX
setX(g, w, x, adjust) ==
  IF getX(g, w) = x /\ g.wsize[w].x1 = x THEN g
  ELSE adjustIf([g EXCEPT !.wsize[w] = rectSetX(@, clampPos(w, x)),
                          !.adjust_wsize[w] = rectSetX(@, clampPos(w, x))],
                w, adjust)

\* FWidget::setY
setY(g, w, y, adjust) ==
  IF getY(g, w) = y /\ g.wsize[w].y1 = y THEN g
  ELSE adjustIf([g EXCEPT !.wsize[w] = rectSetY(@, clampPos(w, y)),
                          !.adjust_wsize[w] = rectSetY(@, clampPos(w, y))],
                w, adjust)

\* FWidget::setPos
setPos(g, w, x, y, adjust) ==
  IF /\ getX(g, w) = x /\ g.wsize[w].x1 = x
     /\ getY(g, w) = y /\ g.wsize[w].y1 = y
  THEN g
  ELSE adjustIf(
         [g EXCEPT
            !.wsize[w] = rectSetY(rectSetX(@, clampPos(w, x)),
                                  clampPos(w, y)),
            !.adjust_wsize[w] = rectSetY(rectSetX(@, clampPos(w, x)),
                                         clampPos(w, y))],
         w, adjust)

\* The part of setWidth after the early return, for the clamped width
applyWidth(g, w, width, adjust) ==
  resizeWidthMasks(
    adjustIf([g EXCEPT !.wsize[w] = rectSetWidth(@, Max(1, width)),
                       !.adjust_wsize[w] = rectSetWidth(@, Max(1, width))],
             w, adjust), w)

\* FWidget::setWidth
setWidth(g, w, width, adjust) ==
  IF /\ getWidth(g, w) = clampWidth(w, width)
     /\ rectWidth(g.wsize[w]) = clampWidth(w, width)
  THEN g
  ELSE applyWidth(g, w, clampWidth(w, width), adjust)

\* The part of setHeight after the early return, for the clamped height
applyHeight(g, w, height, adjust) ==
  resizeHeightMasks(
    adjustIf([g EXCEPT !.wsize[w] = rectSetHeight(@, Max(1, height)),
                       !.adjust_wsize[w] = rectSetHeight(@, Max(1, height))],
             w, adjust), w)

\* FWidget::setHeight
setHeight(g, w, height, adjust) ==
  IF /\ getHeight(g, w) = clampHeight(w, height)
     /\ rectHeight(g.wsize[w]) = clampHeight(w, height)
  THEN g
  ELSE applyHeight(g, w, clampHeight(w, height), adjust)

\* The part of setSize after the early return, for the clamped size
applySize(g, w, width, height, adjust) ==
  resizeHeightMasks(resizeWidthMasks(
    adjustIf(
      [g EXCEPT
         !.wsize[w] = rectSetHeight(rectSetWidth(@, Max(1, width)),
                                    Max(1, height)),
         !.adjust_wsize[w] = rectSetHeight(rectSetWidth(@, Max(1, width)),
                                           Max(1, height))],
      w, adjust), w), w)

\* FWidget::setSize
setSize(g, w, width, height, adjust) ==
  IF /\ getWidth(g, w) = clampWidth(w, width)
     /\ rectWidth(g.wsize[w]) = clampWidth(w, width)
     /\ getHeight(g, w) = clampHeight(w, height)
     /\ rectHeight(g.wsize[w]) = clampHeight(w, height)
  THEN g
  ELSE applySize(g, w, clampWidth(w, width), clampHeight(w, height), adjust)

\* setGeometry: the requested rectangle, from the position and the clamped
\* size
newGeometry(w, x, y, width, height) ==
  setRect(clampPos(w, x), clampPos(w, y), Max(1, width), Max(1, height))

\* setGeometry: adjust_wsize = wsize
copyRequested(g, w, r) ==
  [g EXCEPT !.wsize[w] = r, !.adjust_wsize[w] = r]

\* The part of setGeometry after the early return
applyGeometry(g, w, r, adjust) ==
  adjustIf(
    resizeHeightMasks(resizeWidthMasks(
      setClientOffset(copyRequested(g, w, r), w), w), w),
    w, adjust)

\* FWidget::setGeometry
setGeometry(g, w, x, y, width, height, adjust) ==
  IF /\ getX(g, w) = x /\ getY(g, w) = y
     /\ getWidth(g, w) = clampWidth(w, width)
     /\ getHeight(g, w) = clampHeight(w, height)
  THEN g
  ELSE applyGeometry(g, w,
         newGeometry(w, x, y, clampWidth(w, width), clampHeight(w, height)),
         adjust)

\* ---- terminal resize
\* FWidget::detectTermSize, the terminal reporting the size t
detectTermSize(g, t) ==
  [g EXCEPT !.desktop = t,
            !.adjust_wsize[Root] = setRect(1, 1, t.w, t.h),
            !.offset[Root] = setRect(0, 0, t.w, t.h),
            !.client_offset[Root] =
               FRect(padding[Root].left, padding[Root].top,
                     t.w - 1 - padding[Root].right,
                     t.h - 1 - padding[Root].bottom)]

\* The root branch of resize after detectTermSize; old is the root's size
\* before it
resizeRoot(g, old) ==
  IF old = <<getWidth(g, Root), getHeight(g, Root)>> THEN g
  ELSE resizeHeightMasks(resizeWidthMasks(adjustSizeGlobal(g), Root), Root)

\* FWidget::resize, the terminal reporting the size t
resize(g, w, t) ==
  IF isRootWidget(w)
  THEN resizeRoot(detectTermSize(g, t),
                  <<getWidth(g, Root), getHeight(g, Root)>>)
  ELSE resizeHeightMasks(resizeWidthMasks(adjustSize(g, w), w), w)

\* ---- construction of the layout tree
\* The terminal size detected at start-up
DesktopWidth == 6
DesktopHeight == 5

\* The maximum size hint of a widget without hints
MaxHint == 100

NoPadding == [top |-> 0, left |-> 0, bottom |-> 0, right |-> 0]
Padded == [top |-> 1, left |-> 1, bottom |-> 1, right |-> 1]
NoHints == [min_width |-> 0, max_width |-> MaxHint,
            min_height |-> 0, max_height |-> MaxHint]
Hinted == [min_width |-> 2, max_width |-> 3,
           min_height |-> 3, max_height |-> 4]

\* A configuration of the tree: the widgets with padding, with size hints,
\* ignoring padding, owning a child print area, and whether the window is a
\* dialog.  They are set after construction by calls that do not run the
\* layout pass.
Config(padded, hinted, ignoring, area, dlg) ==
  [padded |-> padded, hinted |-> hinted, ignoring |-> ignoring,
   area |-> area, dialog |-> dlg]

PlainConfig == Config({}, {}, {}, {}, FALSE)

Configs ==
  { PlainConfig,
    Config({Box}, {}, {}, {}, FALSE),
    Config({Win}, {Pane}, {}, {}, FALSE),
    Config({Item}, {Item}, {}, {}, FALSE),
    Config({}, {Item}, {}, {}, FALSE),
    Config({Box}, {}, {Item}, {}, FALSE),
    Config({Root}, {}, {Win}, {}, FALSE),
    Config({Root}, {}, {Win}, {}, TRUE),
    Config({Box}, {}, {}, {Item}, FALSE) }

\* The geometry without the observation of the running operation
Snapshot ==
  [ wsize |-> wsize, adjust_wsize |-> adjust_wsize, offset |-> offset,
    client_offset |-> client_offset, mask |-> double_flatline_mask,
    desktop |-> desktop ]

\* The record of a geometry operation and its arguments
GeoOp(name, w, x, y, width, height, adjust) ==
  [op |-> name, w |-> w, x |-> x, y |-> y, width |-> width,
   height |-> height, adjust |-> adjust]

Masks(width, height) ==
  [top |-> width, right |-> height, bottom |-> width, left |-> height]

\* The tree after construction (root first, each child after its parent)
\* in configuration c on a terminal of tw columns and th lines: the root
\* covers the terminal, every other widget has
\* the rectangle (1,1,1,1), an empty client offset and the client offset its
\* parent had when it was constructed as its offset.
InitLayoutAt(c, tw, th) ==
  /\ padding = [w \in LayoutWidgets |->
                  IF w \in c.padded THEN Padded ELSE NoPadding]
  /\ size_hints = [w \in LayoutWidgets |->
                     IF w \in c.hinted THEN Hinted ELSE NoHints]
  /\ ignore_padding = [w \in LayoutWidgets |-> w \in c.ignoring]
  /\ child_print_area = [w \in LayoutWidgets |-> w \in c.area]
  /\ dialog = c.dialog
  /\ desktop = [w |-> tw, h |-> th]
  /\ wsize = [w \in LayoutWidgets |->
                IF w = Root THEN setRect(1, 1, tw, th)
                ELSE FRect(1, 1, 1, 1)]
  /\ adjust_wsize = wsize
  /\ offset = [w \in LayoutWidgets |->
                 IF w \in {Root, Box}
                 THEN setRect(0, 0, tw, th)
                 ELSE EmptyRect]
  /\ client_offset = [w \in LayoutWidgets |->
                        IF w = Root
                        THEN setRect(0, 0, tw, th)
                        ELSE EmptyRect]
  /\ double_flatline_mask =
       [w \in LayoutWidgets |->
          IF w = Root THEN Masks(tw, th)
          ELSE Masks(1, 1)]
  /\ geoOp = GeoOp("init", NoWidget, 0, 0, 0, 0, FALSE)
  /\ pre = Snapshot

InitLayout(c) == InitLayoutAt(c, DesktopWidth, DesktopHeight)

\* ------------------------------------------------------------ print areas
\* A chain of widgets: node 0 has no parent, node n > 0 has the parent
\* n - 1.
PaDepth == 4
PaNodes == 0..PaDepth
NoNode == -1
paParent(n) == IF n = 0 THEN NoNode ELSE n - 1

\* The buffers: the virtual desktop, the window buffer and the child print
\* area of a node; NoArea is the null pointer.
NoArea == [kind |-> "none", of |-> NoNode]
VDesktop == [kind |-> "vdesktop", of |-> NoNode]
getVWin(n) == IF vwin[n] THEN [kind |-> "vwin", of |-> n] ELSE NoArea
getChildPrintArea(n) ==
  IF child_area[n] THEN [kind |-> "child", of |-> n] ELSE NoArea

\* Variant: the loop stops at the widget itself.
walkUp_NoWalk(obj) == <<obj>>

\* The do-while loop of getPrintArea from the node obj: the nodes it visits
RECURSIVE walkUp(_)
walkUp(obj) ==
  IF getVWin(obj) = NoArea /\ getChildPrintArea(obj) = NoArea
       /\ paParent(obj) # NoNode
  THEN <<obj>> \o walkUp(paParent(obj))
  ELSE <<obj>>

\* The buffer getPrintArea finds at the node obj where the loop ended
foundAt(obj) ==
  IF getVWin(obj) # NoArea THEN getVWin(obj) ELSE getChildPrintArea(obj)

\* Variant: the buffer found is returned and never stored as current print
\* area.
getPrintArea_NoCache(n) ==
  [op |-> "getPrintArea", n |-> n,
   area |-> IF foundAt(walkUp(n)[Len(walkUp(n))]) # NoArea
            THEN foundAt(walkUp(n)[Len(walkUp(n))]) ELSE VDesktop,
   walk |-> walkUp(n), cache |-> NoArea, child |-> FALSE]

\* FWidget::getPrintArea on node n: the record of the call, with the buffer
\* it returns, the nodes it visited and the cache of n afterwards
getPrintArea(n) ==
  IF print_area[n] # NoArea
  THEN [op |-> "getPrintArea", n |-> n, area |-> print_area[n],
        walk |-> <<>>, cache |-> print_area[n], child |-> FALSE]
  ELSE [op |-> "getPrintArea", n |-> n,
        area |-> IF foundAt(walkUp(n)[Len(walkUp(n))]) # NoArea
                 THEN foundAt(walkUp(n)[Len(walkUp(n))]) ELSE VDesktop,
        walk |-> walkUp(n),
        cache |-> foundAt(walkUp(n)[Len(walkUp(n))]), child |-> FALSE]

\* FWidget::isChildPrintArea on node n
isChildPrintArea(n) ==
  /\ paParent(n) # NoNode
  /\ getChildPrintArea(paParent(n)) # NoArea
  /\ getChildPrintArea(paParent(n)) = print_area[n]

GetPrintAreaAct(n) ==
  /\ paCall' = getPrintArea(n)
  /\ print_area' = [print_area EXCEPT ![n] = getPrintArea(n).cache]
  /\ UNCHANGED <<vwin, child_area>>
  /\ UNCHANGED <<flagVars, globalVars, cbVars, obsVars, geoAll, appVars, extVars>>

IsChildPrintAreaAct(n) ==
  /\ paCall' = [op |-> "isChildPrintArea", n |-> n, area |-> print_area[n],
                walk |-> <<>>, cache |-> print_area[n],
                child |-> isChildPrintArea(n)]
  /\ UNCHANGED <<vwin, child_area, print_area>>
  /\ UNCHANGED <<flagVars, globalVars, cbVars, obsVars, geoAll, appVars, extVars>>

\* The chain after construction: no widget has resolved its print area;
\* the widgets of wins are windows, those of areas own a child print area.
InitPrintAreas(wins, areas) ==
  /\ vwin = [n \in PaNodes |-> n \in wins]
  /\ child_area = [n \in PaNodes |-> n \in areas]
  /\ print_area = [n \in PaNodes |-> NoArea]
  /\ paCall = [op |-> "init", n |-> NoNode, area |-> NoArea, walk |-> <<>>,
               cache |-> NoArea, child |-> FALSE]

\* ---------------------------------------------------------- specification
\* The state after construction (FWidget::FWidget): every widget is active
\* and visible, neither shown nor hidden nor focused; nothing holds the
\* focus.
Constructed ==
  [ active |-> [w \in Widgets |-> TRUE],
    visible |-> [w \in Widgets |-> TRUE],
    shown |-> [w \in Widgets |-> FALSE],
    hidden |-> [w \in Widgets |-> FALSE],
    focus |-> [w \in Widgets |-> FALSE],
    focus_widget |-> NoWidget,
    redraw_root_widget |-> NoWidget,
    show_root_widget |-> NoWidget,
    init_desktop |-> FALSE,
    active_window |-> NoWidget,
    window_focus_widget |-> [w \in Widgets |-> NoWidget],
    log |-> <<>>, ret |-> FALSE, hung |-> FALSE ]

\* The classes of the children: each child is an ordinary widget, a window or
\* a dialog, and is focusable unless its class called unsetFocusable() in its
\* constructor (as FProgressbar does).  At most one child differs from a
\* focusable ordinary widget: it is not focusable, or a window, or a dialog.
ClassesOk(fo, kd) ==
  /\ fo[Root] /\ fo[Par]
  /\ kd[Root] = "widget" /\ kd[Par] = "widget"
  /\ Cardinality({w \in Siblings : ~fo[w] \/ kd[w] # "widget"}) <= 1
  /\ \A w \in Siblings : kd[w] # "widget" => fo[w]

\* The program starts with the tree constructed and the root shown
\* (show() on the root shows every widget).
InitWidgets ==
  /\ focusable \in [Widgets -> BOOLEAN]
  /\ kind \in [Widgets -> Kinds]
  /\ ClassesOk(focusable, kind)
  /\ LET s == show(Constructed, Root, NoHandler)
     IN /\ active = s.active
        /\ visible = s.visible
        /\ shown = s.shown
        /\ hidden = s.hidden
        /\ focus = s.focus
        /\ focus_widget = s.focus_widget
        /\ redraw_root_widget = s.redraw_root_widget
        /\ show_root_widget = s.show_root_widget
        /\ init_desktop = s.init_desktop
        /\ active_window = s.active_window
        /\ window_focus_widget = s.window_focus_widget
  /\ log = <<>>
  /\ ret = FALSE
  /\ lastOp = Op("init", NoWidget, "")
  /\ hung = FALSE
  /\ ops = 0

\* The root owns an accelerator table (FWidget::init), no widget is the
\* status bar, the menu bar, the main widget or the clicked widget, and
\* the pending-close list is empty.
InitAppWith(sbar, mbar, mainw, modals) ==
  /\ accelerator_list = [w \in Widgets |-> <<>>]
  /\ statusbar = sbar
  /\ menubar = mbar
  /\ close_widget = <<>>
  /\ clicked_widget = NoWidget
  /\ main_widget = mainw
  /\ modal = [w \in Widgets |-> w \in modals]

InitApp == InitAppWith(NoWidget, NoWidget, NoWidget, {})

\* The root is registered as the root object; FWidget::init has created the
\* lists, into which the windows have registered; no modal dialog is open,
\* no widget is a menu and the progress bar has no percentage.
InitExtWith(modals_open, menus) ==
  /\ rootObject = Root
  /\ modal_dialog_counter = modals_open
  /\ widget_lists = [window_list |-> window_list, dialog_list |-> <<>>,
                     always_on_top_list |-> <<>>]
  /\ constructed = [parent |-> NoWidget, thrown |-> FALSE]
  /\ menu = menus
  /\ percentage = NOT_SET

InitExt == InitExtWith(0, {})

InitCallbacks ==
  /\ callback_objects = <<>>
  /\ member_callback_objects = <<>>
  /\ invoked = <<>>

Init ==
  /\ InitWidgets
  /\ InitCallbacks
  /\ InitExt
  /\ InitApp
  /\ InitLayout(PlainConfig)
  /\ InitPrintAreas({}, {})

\* The focus model: the focus and visibility operations on the children.
Next ==
  \/ \E w \in Siblings, enable \in BOOLEAN, raised \in BOOLEAN :
       ops < MaxOps /\ SetFocusAct(w, enable, raised)
  \/ \E w \in Siblings, enable \in BOOLEAN :
       ops < MaxOps /\ SetEnableAct(w, enable)
  \/ \E w \in Siblings, in \in Answers : ops < MaxOps /\ HideAct(w, in)
  \/ \E w \in Widgets : \E in \in AnswersAsked(w) :
       ops < MaxOps /\ FocusNextChildAct(w, in)
  \/ \E w \in Widgets : \E in \in AnswersAsked(w) :
       ops < MaxOps /\ FocusPrevChildAct(w, in)

Spec == Init /\ [][Next]_vars

\* The round-trip model: longer runs of the focus operations on the
\* children alone, without hide() and without exceptions in redraw.
MaxTripOps == 5

NextTrip ==
  \/ \E w \in Siblings, enable \in BOOLEAN :
       ops < MaxTripOps /\ SetFocusAct(w, enable, FALSE)
  \/ \E w \in Siblings, enable \in BOOLEAN :
       ops < MaxTripOps /\ SetEnableAct(w, enable)
  \/ \E w \in Siblings : \E in \in AnswersAsked(w) :
       ops < MaxTripOps /\ FocusNextChildAct(w, in)
  \/ \E w \in Siblings : \E in \in AnswersAsked(w) :
       ops < MaxTripOps /\ FocusPrevChildAct(w, in)

SpecTrip == Init /\ [][NextTrip]_vars

\* The widgets from w up to the root.
RECURSIVE Chain(_)
Chain(w) == IF w = NoWidget THEN {} ELSE {w} \cup Chain(getParentWidget(w))

\* The key-press model: each run delivers one key press, to any widget,
\* after at most MaxKeyOps setEnable and hide calls on the children.
KeySetup == ops < MaxKeyOps /\ lastOp.op # "KeyPressEvent"

NextKey ==
  \/ \E w \in Siblings, enable \in BOOLEAN :
       KeySetup /\ SetEnableAct(w, enable)
  \/ \E w \in Siblings, in \in Answers : KeySetup /\ HideAct(w, in)
  \/ \E w \in Widgets, key \in Keys :
       \E in \in AnswersAsked(w), acc \in SUBSET Chain(w) :
         lastOp.op # "KeyPressEvent" /\ KeyPressAct(w, key, in, acc)

SpecKey == Init /\ [][NextKey]_vars

\* ------------------------------------------------- callback registry model
AddCallbackAct(cb_signal, cb_handler, data) ==
  /\ Len(callback_objects) < MaxCallbacks
  /\ callback_objects' = addCallback(callback_objects, cb_signal, cb_handler,
                                     data)
  /\ invoked' = <<>>
  /\ lastOp' = Op("addCallback", NoWidget, cb_signal)
  /\ UNCHANGED <<member_callback_objects, flagVars, globalVars,
                 log, ret, hung, ops, geoAll, paVars, appVars, extVars>>

AddMemberCallbackAct(cb_signal, cb_instance, cb_handler, data) ==
  /\ Len(member_callback_objects) < MaxCallbacks
  /\ member_callback_objects' =
       addMemberCallback(member_callback_objects, cb_signal, cb_instance,
                         cb_handler, data)
  /\ invoked' = <<>>
  /\ lastOp' = Op("addMemberCallback", NoWidget, cb_signal)
  /\ UNCHANGED <<callback_objects, flagVars, globalVars, log, ret, hung, ops,
                 geoAll, paVars, appVars, extVars>>

DelCallbackAct(cb_handler) ==
  /\ callback_objects' = delCallback(callback_objects, cb_handler)
  /\ invoked' = <<>>
  /\ lastOp' = Op("delCallback", NoWidget, cb_handler)
  /\ UNCHANGED <<member_callback_objects, flagVars, globalVars,
                 log, ret, hung, ops, geoAll, paVars, appVars, extVars>>

DelMemberCallbackAct(cb_instance) ==
  /\ member_callback_objects' =
       delMemberCallback(member_callback_objects, cb_instance)
  /\ invoked' = <<>>
  /\ lastOp' = Op("delMemberCallback", NoWidget, cb_instance)
  /\ UNCHANGED <<callback_objects, flagVars, globalVars, log, ret, hung, ops,
                 geoAll, paVars, appVars, extVars>>

EmitCallbackAct(emit_signal) ==
  /\ invoked' = emitCallback(emit_signal)
  /\ lastOp' = Op("emitCallback", NoWidget, emit_signal)
  /\ UNCHANGED <<callback_objects, member_callback_objects, flagVars,
                 globalVars, log, ret, hung, ops, geoAll, paVars, appVars, extVars>>

\* The callback registry of one widget of the plain tree.
InitCb ==
  /\ InitWidgets
  /\ \A w \in Widgets : focusable[w] /\ kind[w] = "widget"
  /\ InitCallbacks
  /\ InitExt
  /\ InitApp
  /\ InitLayout(PlainConfig)
  /\ InitPrintAreas({}, {})

NextCb ==
  \/ \E sig \in Signals, h \in Handlers, d \in Payloads :
       AddCallbackAct(sig, h, d)
  \/ \E sig \in Signals, i \in Instances, h \in MemberHandlers,
        d \in Payloads : AddMemberCallbackAct(sig, i, h, d)
  \/ \E h \in Handlers : DelCallbackAct(h)
  \/ \E i \in Instances : DelMemberCallbackAct(i)
  \/ \E sig \in Signals : EmitCallbackAct(sig)

SpecCb == InitCb /\ [][NextCb]_vars

\* ------------------------------------------------------------ layout model
MaxGeoOps == 2

\* Stores the geometry g as the next state, after the operation o.
GeoCommit(g, o) ==
  /\ wsize' = g.wsize
  /\ adjust_wsize' = g.adjust_wsize
  /\ offset' = g.offset
  /\ client_offset' = g.client_offset
  /\ double_flatline_mask' = g.mask
  /\ desktop' = g.desktop
  /\ log' = g.log
  /\ hung' = g.hung
  /\ pre' = Snapshot
  /\ geoOp' = o
  /\ lastOp' = Op(o.op, o.w, "")
  /\ ret' = FALSE
  /\ ops' = ops + 1
  /\ UNCHANGED <<flagVars, globalVars, cbVars, geoStatic, paVars, appVars, extVars>>

GeoRunning == Running /\ ops < MaxGeoOps

SetXAct(w, x, adjust) ==
  /\ GeoRunning
  /\ GeoCommit(setX(GeoState, w, x, adjust),
               GeoOp("setX", w, x, 0, 0, 0, adjust))

SetYAct(w, y, adjust) ==
  /\ GeoRunning
  /\ GeoCommit(setY(GeoState, w, y, adjust),
               GeoOp("setY", w, 0, y, 0, 0, adjust))

SetPosAct(w, x, y, adjust) ==
  /\ GeoRunning
  /\ GeoCommit(setPos(GeoState, w, x, y, adjust),
               GeoOp("setPos", w, x, y, 0, 0, adjust))

SetWidthAct(w, width, adjust) ==
  /\ GeoRunning
  /\ GeoCommit(setWidth(GeoState, w, width, adjust),
               GeoOp("setWidth", w, 0, 0, width, 0, adjust))

SetHeightAct(w, height, adjust) ==
  /\ GeoRunning
  /\ GeoCommit(setHeight(GeoState, w, height, adjust),
               GeoOp("setHeight", w, 0, 0, 0, height, adjust))

SetSizeAct(w, width, height, adjust) ==
  /\ GeoRunning
  /\ GeoCommit(setSize(GeoState, w, width, height, adjust),
               GeoOp("setSize", w, 0, 0, width, height, adjust))

SetGeometryAct(w, x, y, width, height, adjust) ==
  /\ GeoRunning
  /\ GeoCommit(setGeometry(GeoState, w, x, y, width, height, adjust),
               GeoOp("setGeometry", w, x, y, width, height, adjust))

AdjustSizeAct(w) ==
  /\ GeoRunning
  /\ GeoCommit(adjustSize(GeoState, w),
               GeoOp("adjustSize", w, 0, 0, 0, 0, FALSE))

\* resize(), the terminal having the size t when it runs
ResizeAct(w, t) ==
  /\ GeoRunning
  /\ GeoCommit(resize(GeoState, w, t),
               GeoOp("resize", w, 0, 0, t.w, t.h, FALSE))

\* The widgets the application lays out, and the arguments it passes
Placed == {Box, Item, Win, Pane}
Xs == {0, 1, 3}
Ys == {0, 1, 2}
Widths == {0, 1, 4}
Heights == {0, 1, 3}
Points == {<<0, 0>>, <<1, 1>>, <<3, 2>>}
Sizes == {<<0, 0>>, <<1, 1>>, <<4, 3>>}
Geometries == {<<0, 0, 0, 0>>, <<1, 1, 1, 1>>, <<2, 2, 4, 3>>,
               <<3, 2, 4, 3>>, <<1, 1, 4, 3>>}
TermSizes == {[w |-> DesktopWidth, h |-> DesktopHeight], [w |-> 3, h |-> 3]}

InitGeo ==
  /\ InitWidgets
  /\ \A w \in Widgets : focusable[w] /\ kind[w] = "widget"
  /\ InitCallbacks
  /\ InitExt
  /\ InitApp
  /\ \E c \in Configs : InitLayout(c)
  /\ InitPrintAreas({}, {})

NextGeo ==
  \/ \E w \in Placed, x \in Xs, adjust \in BOOLEAN : SetXAct(w, x, adjust)
  \/ \E w \in Placed, y \in Ys, adjust \in BOOLEAN : SetYAct(w, y, adjust)
  \/ \E w \in Placed, p \in Points, adjust \in BOOLEAN :
       SetPosAct(w, p[1], p[2], adjust)
  \/ \E w \in Placed, width \in Widths, adjust \in BOOLEAN :
       SetWidthAct(w, width, adjust)
  \/ \E w \in Placed, height \in Heights, adjust \in BOOLEAN :
       SetHeightAct(w, height, adjust)
  \/ \E w \in Placed, s \in Sizes, adjust \in BOOLEAN :
       SetSizeAct(w, s[1], s[2], adjust)
  \/ \E w \in Placed, r \in Geometries, adjust \in BOOLEAN :
       SetGeometryAct(w, r[1], r[2], r[3], r[4], adjust)
  \/ \E w \in Placed : AdjustSizeAct(w)
  \/ \E w \in Placed : ResizeAct(w, desktop)
  \/ \E t \in TermSizes : ResizeAct(Root, t)

SpecGeo == InitGeo /\ [][NextGeo]_vars

\* ---- flat border
Sides == {"top", "right", "bottom", "left"}

\* The cells of the masks FWidget::drawFlatBorder and clearFlatBorder read:
\* left[y] and right[y] for y < getHeight(), top[x] and bottom[x] for
\* x < getWidth().
maskReads(g, w) ==
  {<<side, y>> : side \in {"left", "right"}, y \in 0..(getHeight(g, w) - 1)}
    \cup {<<side, x>> : side \in {"top", "bottom"},
                        x \in 0..(getWidth(g, w) - 1)}

\* A read of a cell at or after the end of its mask
pastEnd(g, w, read) == read[2] >= g.mask[w][read[1]]

\* FWidget::drawFlatBorder and FWidget::clearFlatBorder: nothing without
\* the new font; else the masks are read, in range or not.
readFlatBorder(g, w, what, newfont) ==
  IF ~newfont THEN g
  ELSE IF \E read \in maskReads(g, w) : pastEnd(g, w, read)
  THEN GeoLogged(GeoLogged(g, what, w), "readPastEnd", w)
  ELSE GeoLogged(g, what, w)

drawFlatBorder(g, w, newfont) == readFlatBorder(g, w, "drawFlatBorder", newfont)
clearFlatBorder(g, w, newfont) ==
  readFlatBorder(g, w, "clearFlatBorder", newfont)

\* FWidget::setDoubleFlatLine (side, pos, bit): the cell pos - 1 is written
\* if it lies within the mask.
setDoubleFlatLine(g, w, side, pos) ==
  IF pos - 1 < g.mask[w][side] THEN GeoLogged(g, "writeMask", w) ELSE g

\* The border model: the layout model with the drawing of the flat border
\* and the setting of single mask cells.
DrawFlatBorderAct(w, newfont) ==
  /\ GeoRunning
  /\ GeoCommit(drawFlatBorder(GeoState, w, newfont),
               GeoOp("drawFlatBorder", w, 0, 0, 0, 0, FALSE))

ClearFlatBorderAct(w, newfont) ==
  /\ GeoRunning
  /\ GeoCommit(clearFlatBorder(GeoState, w, newfont),
               GeoOp("clearFlatBorder", w, 0, 0, 0, 0, FALSE))

SetDoubleFlatLineAct(w, side, pos) ==
  /\ GeoRunning
  /\ GeoCommit(setDoubleFlatLine(GeoState, w, side, pos),
               GeoOp("setDoubleFlatLine", w, pos, 0, 0, 0, FALSE))

MaskPositions == {1, 2, 7}

NextBorder ==
  \/ NextGeo
  \/ \E w \in Placed, newfont \in BOOLEAN : DrawFlatBorderAct(w, newfont)
  \/ \E w \in Placed, newfont \in BOOLEAN : ClearFlatBorderAct(w, newfont)
  \/ \E w \in Placed, side \in Sides, pos \in MaskPositions :
       SetDoubleFlatLineAct(w, side, pos)

SpecBorder == InitGeo /\ [][NextBorder]_vars

\* ---- the print-area model
\* The root is no window; any widget below it may own a child print area.
InitPa ==
  /\ InitWidgets
  /\ \A w \in Widgets : focusable[w] /\ kind[w] = "widget"
  /\ InitCallbacks
  /\ InitExt
  /\ InitApp
  /\ InitLayout(PlainConfig)
  /\ \E wins \in SUBSET (1..(PaDepth - 1)), areas \in SUBSET (1..PaDepth) :
       InitPrintAreas(wins, areas)

NextPa ==
  \/ \E n \in PaNodes : GetPrintAreaAct(n)
  \/ \E n \in PaNodes : IsChildPrintAreaAct(n)

SpecPa == InitPa /\ [][NextPa]_vars

\* ---- the terminal-shrink scenario
\* A terminal of 80 columns and 24 lines, which shrinks to 10 x 10, and a
\* window that is given the position (5,5) and the size 20 x 10.
ScenarioTerm == [w |-> 80, h |-> 24]
ShrunkTerm == [w |-> 10, h |-> 10]
ScenarioTerms == {ScenarioTerm, ShrunkTerm, [w |-> 40, h |-> 12]}
ScenarioRect == setRect(5, 5, 20, 10)

InitShrink ==
  /\ InitWidgets
  /\ \A w \in Widgets : focusable[w] /\ kind[w] = "widget"
  /\ InitCallbacks
  /\ InitExt
  /\ InitApp
  /\ \E c \in Configs : InitLayoutAt(c, ScenarioTerm.w, ScenarioTerm.h)
  /\ InitPrintAreas({}, {})

NextShrink ==
  \/ \E adjust \in BOOLEAN : SetGeometryAct(Win, 5, 5, 20, 10, adjust)
  \/ \E adjust \in BOOLEAN : SetGeometryAct(Pane, 2, 2, 30, 4, adjust)
  \/ \E w \in Placed : AdjustSizeAct(w)
  \/ \E t \in ScenarioTerms : ResizeAct(Root, t)

SpecShrink == InitShrink /\ [][NextShrink]_vars

\* The flags and pointers of the state s as initial state.
InitFlags(s) ==
  /\ active = s.active
  /\ visible = s.visible
  /\ shown = s.shown
  /\ hidden = s.hidden
  /\ focus = s.focus
  /\ focus_widget = s.focus_widget
  /\ redraw_root_widget = s.redraw_root_widget
  /\ show_root_widget = s.show_root_widget
  /\ init_desktop = s.init_desktop
  /\ active_window = s.active_window
  /\ window_focus_widget = s.window_focus_widget
  /\ log = <<>>
  /\ ret = FALSE
  /\ lastOp = Op("init", NoWidget, "")
  /\ hung = FALSE
  /\ ops = 0

\* The visibility model: show, hide, setVisible and redraw on a tree whose
\* widgets are constructed and not yet shown.
MaxShowOps == 3

InitShow ==
  /\ focusable = [w \in Widgets |-> TRUE]
  /\ kind \in {[w \in Widgets |-> "widget"],
               [w \in Widgets |-> IF w = "w3" THEN "window" ELSE "widget"]}
  /\ InitFlags(Constructed)
  /\ InitCallbacks
  /\ InitExt
  /\ InitApp
  /\ InitLayout(PlainConfig)
  /\ InitPrintAreas({}, {})

NextShow ==
  \/ \E w \in Widgets, h \in ShowHandlers :
       ops < MaxShowOps /\ ShowAct(w, h)
  \/ \E w \in Widgets, in \in AnswersAsked(Root) :
       ops < MaxShowOps /\ HideAct(w, in)
  \/ \E w \in Widgets, enable \in BOOLEAN :
       ops < MaxShowOps /\ SetVisibleAct(w, enable)
  \/ \E w \in Widgets : ops < MaxShowOps /\ RedrawAct(w)

SpecShow == InitShow /\ [][NextShow]_vars

\* The accelerator model: the second and third child are windows, the
\* second may be the status bar and the third the menu bar; the root is
\* shown.
MaxAccOps == 3
AccKeys == {"F1", "F2"}
AccTargets == {Par} \cup Siblings

InitAcc ==
  /\ focusable = [w \in Widgets |-> TRUE]
  /\ kind = [w \in Widgets |-> IF w \in {"w2", "w3"} THEN "window"
                               ELSE "widget"]
  /\ InitFlags(show(Constructed, Root, NoHandler))
  /\ InitCallbacks
  /\ InitExt
  /\ \E sbar \in {NoWidget, "w2"}, mbar \in {NoWidget, "w3"} :
       InitAppWith(sbar, mbar, NoWidget, {})
  /\ InitLayout(PlainConfig)
  /\ InitPrintAreas({}, {})

NextAcc ==
  \/ \E this \in Widgets, key \in AccKeys, obj \in AccTargets :
       ops < MaxAccOps /\ AddAcceleratorAct(this, key, obj)
  \/ \E this \in Widgets, obj \in AccTargets :
       ops < MaxAccOps /\ DelAcceleratorAct(this, obj)

SpecAcc == InitAcc /\ [][NextAcc]_vars

\* The model of the first and last child: the parent is a window or not,
\* any of the children may refuse the focus, the first may be a menu, and
\* the children and the parent are enabled and disabled.
MaxFirstOps == 3

InitFirst ==
  /\ focusable \in [Widgets -> BOOLEAN]
  /\ focusable[Root] /\ focusable[Par]
  /\ kind \in {[w \in Widgets |-> "widget"],
               [w \in Widgets |-> IF w = Par THEN "window" ELSE "widget"]}
  /\ InitFlags(show(Constructed, Root, NoHandler))
  /\ InitCallbacks
  /\ \E menus \in {{}, {SibNames[1]}} : InitExtWith(0, menus)
  /\ InitApp
  /\ InitLayout(PlainConfig)
  /\ InitPrintAreas({}, {})

NextFirst ==
  \/ \E w \in {Root, Par}, raised \in BOOLEAN :
       ops < MaxFirstOps /\ FocusFirstChildAct(w, raised)
  \/ \E w \in {Root, Par}, raised \in BOOLEAN :
       ops < MaxFirstOps /\ FocusLastChildAct(w, raised)
  \/ \E w \in Siblings \cup {Par}, enable \in BOOLEAN :
       ops < MaxFirstOps /\ SetEnableAct(w, enable)

SpecFirst == InitFirst /\ [][NextFirst]_vars

\* The construction model: close and redraw operations on the children
\* and constructor calls, with or without a modal dialog open and a status
\* bar.
MaxCtorOps == 3

InitCtor ==
  /\ focusable = [w \in Widgets |-> TRUE]
  /\ kind = [w \in Widgets |-> IF w = "w2" THEN "window" ELSE "widget"]
  /\ InitFlags(show(Constructed, Root, NoHandler))
  /\ InitCallbacks
  /\ \E modals_open \in {0, 1} : InitExtWith(modals_open, {})
  /\ \E sbar \in {NoWidget, "w2"} : InitAppWith(sbar, NoWidget, NoWidget, {})
  /\ InitLayout(PlainConfig)
  /\ InitPrintAreas({}, {})

NextCtor ==
  \/ \E w \in Siblings, accept \in BOOLEAN : \E in \in AnswersAsked(w) :
       ops < MaxCtorOps /\ CloseAct(w, accept, in)
  \/ \E w \in Siblings : ops < MaxCtorOps /\ RedrawAct(w)
  \/ \E w \in Siblings, in \in AnswersAsked(Root) :
       ops < MaxCtorOps /\ HideAct(w, in)
  \/ \E parent \in {NoWidget, Par} : ops < MaxCtorOps /\ ConstructAct(parent)

SpecCtor == InitCtor /\ [][NextCtor]_vars

\* The progress bar model: setPercentage and reset on a bar that is shown
\* or not yet shown.
MaxPercentage == 102
Percentages == 0..MaxPercentage \cup {NOT_SET - 1, NOT_SET}

InitPb ==
  /\ focusable = [w \in Widgets |-> w # Bar]
  /\ kind = [w \in Widgets |-> "widget"]
  /\ \E s \in {Constructed, show(Constructed, Root, NoHandler)} :
       InitFlags(s)
  /\ InitCallbacks
  /\ InitExt
  /\ InitApp
  /\ InitLayout(PlainConfig)
  /\ InitPrintAreas({}, {})

NextPb ==
  \/ \E v \in Percentages : SetPercentageAct(v)
  \/ ResetAct

SpecPb == InitPb /\ [][NextPb]_vars

\* The destruction model: focus, click and close operations on the
\* children, then the destructor of one child, after which the program is
\* not followed further.
MaxDelOps == 3

InitDel ==
  /\ focusable = [w \in Widgets |-> TRUE]
  /\ kind \in {[w \in Widgets |-> "widget"],
               [w \in Widgets |-> IF w = "w3" THEN "window" ELSE "widget"]}
  /\ InitFlags(show(Constructed, Root, NoHandler))
  /\ InitCallbacks
  /\ InitExt
  /\ \E mainw \in {NoWidget, "w1"}, modals \in {{}, {"w2"}} :
       InitAppWith(NoWidget, NoWidget, mainw, modals)
  /\ InitLayout(PlainConfig)
  /\ InitPrintAreas({}, {})

DelRunning == ops < MaxDelOps /\ lastOp.op # "destroy"

NextDel ==
  \/ \E w \in Siblings, enable \in BOOLEAN, raised \in BOOLEAN :
       DelRunning /\ SetFocusAct(w, enable, raised)
  \/ \E w \in Siblings \cup {NoWidget} : DelRunning /\ SetClickedWidgetAct(w)
  \/ \E w \in Siblings, accept \in BOOLEAN : \E in \in AnswersAsked(w) :
       DelRunning /\ CloseAct(w, accept, in)
  \/ \E w \in Siblings : DelRunning /\ DestroyAct(w)

SpecDel == InitDel /\ [][NextDel]_vars

\* ================================================================== claims
\* Helpers of the claims' formulas.
LogHas(lg, what) == \E i \in 1..Len(lg) : lg[i].ev = what
LogHasTo(lg, what, w) == \E i \in 1..Len(lg) : lg[i].ev = what /\ lg[i].to = w
LogAccepted(lg, what) ==
  \E i \in 1..Len(lg) : lg[i].ev = what /\ lg[i].acc
FocusFlagged == {w \in Widgets : focus[w]}
IsTraversal(o) == o.op \in {"focusNextChild", "focusPrevChild"}
\* The operation reached changeFocus, with this follower.
Transfer(lg) == lg # <<>> /\ lg[1].ev = "changeFocus"
Follower(lg) == lg[1].to

\* ---- C1
\* C1: at most one widget has its focus flag set in every reachable state,
\* and after a successful setFocus(true) on a widget that widget is the only
\* one whose focus flag is set.
C1_OneFocusHolder ==
  /\ Cardinality(FocusFlagged) <= 1
  /\ (lastOp.op = "setFocus" /\ lastOp.arg = "true" /\ ret)
       => FocusFlagged = {lastOp.w}

\* ---- C2
\* C2: in every operation in which the parent's child-focus-out handler
\* accepts the event, no focus flag and not the focus pointer changes, and
\* setFocus is not invoked on any widget.
C2_ParentVetoKeepsFocus ==
  [][ LogAccepted(log', "onChildFocusOut")
        => /\ focus' = focus
           /\ focus_widget' = focus_widget
           /\ ~LogHas(log', "setFocus")
           /\ ~LogHas(log', "unsetFocus") ]_vars

\* A traversal from the focus holder whose own focus-out was accepted and
\* whose parent accepted the child-focus-out: the holder is still the holder.
C2_Witness ==
  /\ IsTraversal(lastOp)
  /\ LogAccepted(log, "onFocusOut")
  /\ LogAccepted(log, "onChildFocusOut")
  /\ Follower(log) # lastOp.w
  /\ focus_widget = lastOp.w
  /\ focus[lastOp.w]

\* ---- C3
\* The protocol steps of the log, as <<step, recipient>> pairs in order.
ProtocolSteps ==
  {"onFocusOut", "onChildFocusOut", "setFocus", "onChildFocusIn",
   "onFocusIn"}
IsProtocolStep(e) == e.ev \in ProtocolSteps
Steps(lg) ==
  LET sel == SelectSeq(lg, IsProtocolStep)
  IN [i \in 1..Len(sel) |-> <<sel[i].ev, sel[i].to>>]

\* C3: a traversal that reaches changeFocus sends focus-out to the widget it
\* is invoked on (the holder that gives up the focus), then child-focus-out
\* to the parent; if the focus-out is accepted and the parent did not accept
\* the child-focus-out it then calls setFocus on the follower, sends
\* child-focus-in to the parent and focus-in to the follower, in this order;
\* if the focus-out ended up ignored, nothing follows the child-focus-out.
C3_ChangeFocusOrder ==
  (IsTraversal(lastOp) /\ Transfer(log)) =>
    LET this == lastOp.w
        parent == getParentWidget(this)
        f == Follower(log)
        out_accepted == LogAccepted(log, "onFocusOut")
                          /\ ~LogAccepted(log, "onChildFocusOut")
        first == << <<"onFocusOut", this>>, <<"onChildFocusOut", parent>> >>
        rest == << <<"setFocus", f>>, <<"onChildFocusIn", parent>>,
                   <<"onFocusIn", f>> >>
    IN IF out_accepted /\ f # this
       THEN Steps(log) = first \o rest
       ELSE Steps(log) = first

\* A transfer that went through all five steps.
C3_Witness ==
  /\ IsTraversal(lastOp)
  /\ Transfer(log)
  /\ Len(Steps(log)) = 5
  /\ focus_widget = Follower(log)

\* ---- C4
\* The follower handed to changeFocus is the calling widget itself.
SelfTransfer(o, lg) ==
  IsTraversal(o) /\ Transfer(lg) /\ Follower(lg) = o.w

\* C4 as stated: a transfer to the caller itself returns false and nothing
\* is dispatched or changed, whatever the handlers answer.
C4_SelfTransferSilent ==
  SelfTransfer(lastOp, log) => (ret = FALSE /\ Len(log) = 1)

\* C4, amended: a transfer to the caller itself changes no focus state and
\* redraws nothing, but focus-out and child-focus-out are dispatched to the
\* widget and its parent first, and it returns false exactly when the
\* focus-out ends up accepted (true when it ends up ignored).
C4_SelfTransferNoChange ==
  [][ SelfTransfer(lastOp', log') =>
        /\ UNCHANGED <<flagVars, globalVars>>
        /\ Steps(log') = << <<"onFocusOut", lastOp'.w>>,
                            <<"onChildFocusOut", getParentWidget(lastOp'.w)>> >>
        /\ Len(log') = 3
        /\ ret' = ~(LogAccepted(log', "onFocusOut")
                      /\ ~LogAccepted(log', "onChildFocusOut")) ]_vars

\* A self-transfer whose focus-out was accepted: rejected with false.
C4_Witness ==
  /\ SelfTransfer(lastOp, log)
  /\ LogAccepted(log, "onFocusOut")
  /\ ~LogAccepted(log, "onChildFocusOut")
  /\ ret = FALSE

\* ---- C5
\* Neither the widget's nor its parent's handler stopped the transfer.
NoVeto(lg) ==
  ~LogAccepted(lg, "onChildFocusOut")
    /\ (LogHas(lg, "onFocusOut") => LogAccepted(lg, "onFocusOut"))
\* The widget passes the test of the sibling search.
Eligible(w) ==
  active[w] /\ focusable[w] /\ shown[w] /\ kind[w] = "widget"
CountedChildren(p) ==
  {c \in Widgets : getParentWidget(c) = p /\ shown[c] /\ focusable[c]
                     /\ kind[c] = "widget"}

\* C5: with at least two focusable children of the parent and no veto,
\* focusNextChild on the focus holder W followed by focusPrevChild on the
\* widget that then holds the focus leaves the focus pointer on W, W's focus
\* flag set and no other widget's focus flag set.
C5_NextPrevRoundTrip ==
  [][ ( /\ lastOp.op = "focusNextChild"
        /\ lastOp.w \in Siblings
        /\ lastOp.holder = lastOp.w
        /\ Eligible(lastOp.w)
        /\ Cardinality(CountedChildren(Par)) >= 2
        /\ NoVeto(log)
        /\ lastOp'.op = "focusPrevChild"
        /\ lastOp'.w = focus_widget
        /\ NoVeto(log') )
      => /\ ~hung'
         /\ focus_widget' = lastOp.w
         /\ {w \in Widgets : focus'[w]} = {lastOp.w} ]_vars

\* ---- C6
\* C6: focusNextChild and focusPrevChild return false, dispatch no event and
\* change no focus state when the caller is a dialog, has no parent, or its
\* parent has at most one child that is shown, accepts focus and is no
\* window.
C6_TraversalFailsWithoutEffect ==
  [][ ( /\ IsTraversal(lastOp')
        /\ \/ kind[lastOp'.w] = "dialog"
           \/ getParentWidget(lastOp'.w) = NoWidget
           \/ Cardinality(CountedChildren(getParentWidget(lastOp'.w))) <= 1 )
      => /\ ret' = FALSE
         /\ log' = <<>>
         /\ ~hung'
         /\ UNCHANGED <<flagVars, globalVars>> ]_vars

\* Three siblings of which only the second is focusable and shown;
\* focusNextChild from the first has failed.
C6_Witness ==
  /\ lastOp.op = "focusNextChild"
  /\ lastOp.w = SibNames[1]
  /\ CountedChildren(Par) = {SibNames[2]}
  /\ ~focusable[SibNames[1]]
  /\ ret = FALSE
  /\ log = <<>>

\* ---- C7
SibIndex(w) == CHOOSE i \in 1..NumSiblings : SibNames[i] = w
\* The number of forward steps from position i to position j, going round
\* the end of the child list; a full round leads back to i.
StepsForward(i, j) == IF j > i THEN j - i ELSE j - i + NumSiblings

\* C7: the follower focusNextChild (focusPrevChild) hands to changeFocus is
\* enabled, accepts focus, is shown and is no window, and every sibling the
\* circular walk forward (backward) from the caller passes before it is
\* disabled, non-focusable, not shown or a window.
C7_FollowerIsFirstEligible ==
  (IsTraversal(lastOp) /\ Transfer(log)) =>
    LET i == SibIndex(lastOp.w)
        f == Follower(log)
        Dist(j) == IF lastOp.op = "focusNextChild"
                   THEN StepsForward(i, j) ELSE StepsForward(j, i)
    IN /\ f \in Siblings
       /\ Eligible(f)
       /\ \A k \in 1..NumSiblings :
            Dist(k) < Dist(SibIndex(f)) => ~Eligible(SibNames[k])

\* A forward transfer that wrapped round the end of the list and passed
\* over a sibling on its way.
C7_Witness ==
  /\ lastOp.op = "focusNextChild"
  /\ Transfer(log)
  /\ SibIndex(Follower(log)) < SibIndex(lastOp.w)
  /\ StepsForward(SibIndex(lastOp.w), SibIndex(Follower(log))) >= 2
  /\ focus_widget = Follower(log)

\* ---- C8
\* C8: hide() on a visible widget that holds the focus leaves the focus on a
\* sibling whenever another enabled, focusable, shown, non-window sibling
\* exists (no handler vetoing), and the widget ends hidden and not shown with
\* a hide event dispatched to it.
C8_HideMovesFocusToSibling ==
  [][ ( /\ lastOp'.op = "hide"
        /\ lastOp'.w \in Siblings
        /\ visible[lastOp'.w]
        /\ kind[lastOp'.w] = "widget"
        /\ focus_widget = lastOp'.w
        /\ focus[lastOp'.w]
        /\ \E c \in Siblings \ {lastOp'.w} : Eligible(c)
        /\ NoVeto(log') )
      => /\ ~hung'
         /\ focus_widget' \in Siblings \ {lastOp'.w}
         /\ hidden'[lastOp'.w]
         /\ ~shown'[lastOp'.w]
         /\ LogHasTo(log', "onHide", lastOp'.w) ]_vars

\* ---- C9
IsKeyPressStep(e) == e.ev = "onKeyPress"
KeyPressSteps(lg) == SelectSeq(lg, IsKeyPressStep)

\* C9: every key press ends, and one that no focus traversal consumed has
\* been offered to onKeyPress of the receiving widget and then of each
\* successive parent, each only after the one before left the event
\* unaccepted, ending at the first widget whose handler accepted it or at
\* the Root.
C9_KeyPressBubbles ==
  lastOp.op = "KeyPressEvent" =>
    /\ ~hung
    /\ ~ret =>
         LET K == KeyPressSteps(log)
         IN /\ Len(K) >= 1
            /\ K[1].to = lastOp.w
            /\ \A i \in 2..Len(K) :
                 K[i].to = getParentWidget(K[i - 1].to) /\ ~K[i - 1].acc
            /\ K[Len(K)].acc \/ K[Len(K)].to = Root

\* ---- C10
RegistryOf(r) ==
  IF r = "free" THEN callback_objects ELSE member_callback_objects
\* The positions of the registry's entries registered for the signal.
Matching(r, sig) ==
  {i \in 1..Len(RegistryOf(r)) : RegistryOf(r)[i].cb_signal = sig}
\* Every entry registered for the emitted signal was called exactly once,
\* no other entry was called, and the calls of one registry are in
\* registration order.
CalledOnceInOrder ==
  /\ \A r \in {"free", "member"} : \A i \in Matching(r, lastOp.arg) :
       Cardinality({k \in 1..Len(invoked) :
                      invoked[k].registry = r /\ invoked[k].index = i}) = 1
  /\ \A k \in 1..Len(invoked) :
       /\ invoked[k].index \in Matching(invoked[k].registry, lastOp.arg)
       /\ invoked[k].entry = RegistryOf(invoked[k].registry)[invoked[k].index]
  /\ \A a, b \in 1..Len(invoked) :
       (a < b /\ invoked[a].registry = invoked[b].registry)
         => invoked[a].index < invoked[b].index

\* C10 as stated: emitCallback calls every entry registered for the signal
\* exactly once, in registration order, every free-standing entry before
\* every instance-bound entry, and no entry registered for another signal.
C10_FreeBeforeMember ==
  lastOp.op = "emitCallback" =>
    /\ CalledOnceInOrder
    /\ \A a, b \in 1..Len(invoked) :
         (invoked[a].registry = "free" /\ invoked[b].registry = "member")
           => a < b

\* C10, amended: emitCallback calls every entry registered for the signal
\* exactly once and no entry registered for another signal; the
\* instance-bound entries are called first, in registration order, and the
\* free-standing entries after them, in registration order.
C10_MemberBeforeFree ==
  lastOp.op = "emitCallback" =>
    /\ CalledOnceInOrder
    /\ \A a, b \in 1..Len(invoked) :
         (invoked[a].registry = "member" /\ invoked[b].registry = "free")
           => a < b

\* The signal was emitted with two free-standing entries and one
\* instance-bound entry registered for it, and an entry registered for
\* another signal.
C10_Witness ==
  /\ lastOp.op = "emitCallback"
  /\ Cardinality(Matching("free", lastOp.arg)) = 2
  /\ Cardinality(Matching("member", lastOp.arg)) = 1
  /\ Len(invoked) = 3
  /\ Len(callback_objects) + Len(member_callback_objects) > 3

\* ---- C11
\* C11: delCallback(handler) leaves in the free-standing registry exactly the
\* entries of other handlers, in their order, and does not touch the
\* instance-bound registry; delCallback(instance) leaves in the
\* instance-bound registry exactly the entries of other instances, in their
\* order, and does not touch the free-standing registry.
C11_DelCallbackRemovesExactly ==
  [][ /\ lastOp'.op = "delCallback" =>
           LET Kept(e) == e.cb_handler # lastOp'.arg
           IN /\ callback_objects' = SelectSeq(callback_objects, Kept)
              /\ member_callback_objects' = member_callback_objects
      /\ lastOp'.op = "delMemberCallback" =>
           LET Kept(e) == e.cb_instance # lastOp'.arg
           IN /\ member_callback_objects' =
                   SelectSeq(member_callback_objects, Kept)
              /\ callback_objects' = callback_objects ]_vars

\* delCallback(handler) has run on a full registry and left a single entry,
\* of another handler, with instance-bound entries registered.
C11_Witness ==
  /\ lastOp.op = "delCallback"
  /\ Len(callback_objects) = 1
  /\ callback_objects[1].cb_handler # lastOp.arg
  /\ Len(member_callback_objects) >= 2

\* ---- geometry claims
\* The last geometry operation returned and changed the geometry.
Mutated == ~hung /\ pre # Snapshot
WidthInHints(w) ==
  /\ getWidth(Snapshot, w) >= size_hints[w].min_width
  /\ getWidth(Snapshot, w) <= size_hints[w].max_width
HeightInHints(w) ==
  /\ getHeight(Snapshot, w) >= size_hints[w].min_height
  /\ getHeight(Snapshot, w) <= size_hints[w].max_height

\* C12: after a size mutation (setWidth, setHeight, setSize, setGeometry,
\* with or without the layout pass) the adjusted width of the widget lies
\* between its minimum and maximum width hint and its adjusted height
\* between its minimum and maximum height hint (setWidth is held to the
\* width only, setHeight to the height only).
C12_SizeWithinHints ==
  (Mutated /\ geoOp.op \in {"setWidth", "setHeight", "setSize", "setGeometry"})
    => /\ geoOp.op # "setHeight" => WidthInHints(geoOp.w)
       /\ geoOp.op # "setWidth" => HeightInHints(geoOp.w)

Setters == {"setX", "setY", "setPos", "setWidth", "setHeight", "setSize",
            "setGeometry"}
TermX(w) == offset[w].x1 + adjust_wsize[w].x1
TermY(w) == offset[w].y1 + adjust_wsize[w].y1
Width(w) == getWidth(Snapshot, w)
Height(w) == getHeight(Snapshot, w)
\* The client offset of w is its adjusted rectangle, in terminal
\* coordinates, shrunk by its padding.
ShrunkByPadding(w) ==
  /\ client_offset[w].x1 = TermX(w) - 1 + padding[w].left
  /\ client_offset[w].y1 = TermY(w) - 1 + padding[w].top
  /\ client_offset[w].x2 = TermX(w) - 2 + Width(w) - padding[w].right
  /\ client_offset[w].y2 = TermY(w) - 2 + Height(w) - padding[w].bottom

\* C13 as stated: after every geometry mutation by a setter, with the layout
\* pass or without it, the client offset of the widget is its adjusted
\* rectangle shrunk by the padding.
C13_ClientOffsetAfterEverySetter ==
  (Mutated /\ geoOp.op \in Setters) => ShrunkByPadding(geoOp.w)

\* C13 amended: the client offset of the widget is its adjusted rectangle
\* shrunk by the padding after a mutation by setGeometry, and after a
\* mutation by any other setter that ran the layout pass (adjust set).
C13_ClientOffsetAfterLayout ==
  (Mutated /\ geoOp.op \in Setters
     /\ (geoOp.adjust \/ geoOp.op = "setGeometry"))
    => ShrunkByPadding(geoOp.w)

\* setX with the layout pass moved a widget with padding, and its client
\* offset moved with it.
C13_Witness ==
  /\ Mutated /\ geoOp.op = "setX" /\ geoOp.adjust
  /\ padding[geoOp.w] = Padded
  /\ client_offset[geoOp.w] # pre.client_offset[geoOp.w]
  /\ adjust_wsize[geoOp.w].x1 = geoOp.x
  /\ ShrunkByPadding(geoOp.w)

\* The mask sequences of w have the lengths of its width and height.
MasksFit(w) ==
  /\ double_flatline_mask[w].top = Width(w)
  /\ double_flatline_mask[w].bottom = Width(w)
  /\ double_flatline_mask[w].left = Height(w)
  /\ double_flatline_mask[w].right = Height(w)
Resized(w) ==
  \/ Width(w) # getWidth(pre, w)
  \/ Height(w) # getHeight(pre, w)

\* C14: after an operation that changed the adjusted size of a widget (its
\* own setters, resize(), or the layout pass of an ancestor or of a terminal
\* resize) the top and bottom masks of the widget have the length of its
\* width and the left and right masks the length of its height.
C14_MasksFitAfterResize ==
  \A w \in LayoutWidgets : (~hung /\ Resized(w)) => MasksFit(w)

\* C15: whenever an operation has returned, the adjusted rectangle of every
\* widget has a width of at least 1 and a height of at least 1.
C15_AdjustedSizeNeverZero ==
  ~hung => \A w \in LayoutWidgets : Width(w) >= 1 /\ Height(w) >= 1

\* A layout pass found no room at all for a widget of width 4 and height 3
\* and left it with width 1 and height 1.
C15_Witness ==
  \E w \in Placed :
    /\ Mutated /\ LogHasTo(log, "adjustSize", w)
    /\ rectWidth(wsize[w]) = 4 /\ rectHeight(wsize[w]) = 3
    /\ rectWidth(offset[w]) = 0 /\ rectHeight(offset[w]) = 0
    /\ Width(w) = 1 /\ Height(w) = 1

\* The components a setter sets
SetsX(o) == o.op \in {"setX", "setPos", "setGeometry"}
SetsY(o) == o.op \in {"setY", "setPos", "setGeometry"}
SetsWidth(o) == o.op \in {"setWidth", "setSize", "setGeometry"}
SetsHeight(o) == o.op \in {"setHeight", "setSize", "setGeometry"}
\* The size arguments clamped to the size hints
HintedWidth(o) ==
  Max(Min(o.width, size_hints[o.w].max_width), size_hints[o.w].min_width)
HintedHeight(o) ==
  Max(Min(o.height, size_hints[o.w].max_height), size_hints[o.w].min_height)
\* The final target of a call: the position raised to 1 for a widget that is
\* not a window, the size clamped to the hints and raised to 1
FinalX(o) == IF o.w # Win /\ o.x < 1 THEN 1 ELSE o.x
FinalY(o) == IF o.w # Win /\ o.y < 1 THEN 1 ELSE o.y
FinalWidth(o) == Max(1, HintedWidth(o))
FinalHeight(o) == Max(1, HintedHeight(o))
\* The final target of the call equals the adjusted values it found.
TargetIsAdjusted(o) ==
  /\ SetsX(o) => FinalX(o) = pre.adjust_wsize[o.w].x1
  /\ SetsY(o) => FinalY(o) = pre.adjust_wsize[o.w].y1
  /\ SetsWidth(o) => FinalWidth(o) = getWidth(pre, o.w)
  /\ SetsHeight(o) => FinalHeight(o) = getHeight(pre, o.w)
\* The arguments of the call (the position as passed, the size clamped to
\* the hints only) equal the adjusted values it found and, except for
\* setGeometry, the requested values too.
ArgsAreCurrent(o) ==
  /\ SetsX(o) => /\ o.x = pre.adjust_wsize[o.w].x1
                 /\ o.op = "setGeometry" \/ o.x = pre.wsize[o.w].x1
  /\ SetsY(o) => /\ o.y = pre.adjust_wsize[o.w].y1
                 /\ o.op = "setGeometry" \/ o.y = pre.wsize[o.w].y1
  /\ SetsWidth(o) =>
       /\ HintedWidth(o) = getWidth(pre, o.w)
       /\ o.op = "setGeometry" \/ HintedWidth(o) = rectWidth(pre.wsize[o.w])
  /\ SetsHeight(o) =>
       /\ HintedHeight(o) = getHeight(pre, o.w)
       /\ o.op = "setGeometry" \/ HintedHeight(o) = rectHeight(pre.wsize[o.w])
\* The call changed nothing and ran no layout pass.
NoEffect == Snapshot = pre /\ log = <<>>
\* The call stored its final target as the requested values, and ran the
\* layout pass of the widget if and only if adjust was set.
Applied(o) ==
  /\ SetsX(o) => wsize[o.w].x1 = FinalX(o)
  /\ SetsY(o) => wsize[o.w].y1 = FinalY(o)
  /\ SetsWidth(o) => rectWidth(wsize[o.w]) = FinalWidth(o)
  /\ SetsHeight(o) => rectHeight(wsize[o.w]) = FinalHeight(o)
  /\ o.adjust <=> LogHasTo(log, "adjustSize", o.w)

\* C16 as stated: a setter call whose final (clamped) target equals the
\* current adjusted values changes nothing and runs no layout pass; a call
\* whose final target differs from them is applied.
C16_NoOpIffTargetIsAdjusted ==
  (~hung /\ geoOp.op \in Setters) =>
    IF TargetIsAdjusted(geoOp) THEN NoEffect ELSE Applied(geoOp)

\* C16 amended: a setter call changes nothing and runs no layout pass when
\* its arguments (position as passed, size clamped to the hints) equal the
\* current adjusted values and, except for setGeometry, the current
\* requested values; every other call is applied.
C16_NoOpIffArgsAreCurrent ==
  (~hung /\ geoOp.op \in Setters) =>
    IF ArgsAreCurrent(geoOp) THEN NoEffect ELSE Applied(geoOp)

\* setX with adjust set on a widget whose adjusted x already was the
\* argument while its requested x was not: the call was applied.
C16_Witness ==
  /\ ~hung /\ geoOp.op = "setX" /\ geoOp.adjust
  /\ pre.adjust_wsize[geoOp.w].x1 = geoOp.x
  /\ pre.wsize[geoOp.w].x1 # geoOp.x
  /\ wsize[geoOp.w].x1 = geoOp.x
  /\ LogHasTo(log, "adjustSize", geoOp.w)

\* C17: the requested and the adjusted x and y of every widget that is not
\* a window are at least 1 in every state; a position setter applied to a
\* window stores the position as passed.
C17_PositionsClamped ==
  /\ \A w \in LayoutWidgets \ {Win} :
       /\ wsize[w].x1 >= 1 /\ wsize[w].y1 >= 1
       /\ adjust_wsize[w].x1 >= 1 /\ adjust_wsize[w].y1 >= 1
  /\ (Mutated /\ geoOp.w = Win /\ geoOp.op \in Setters) =>
       /\ SetsX(geoOp) => wsize[Win].x1 = geoOp.x
       /\ SetsY(geoOp) => wsize[Win].y1 = geoOp.y

\* setGeometry with the position (0,0) was applied to the item, which is
\* now at (1,1), while the window keeps a requested position of (0,0).
C17_Witness ==
  /\ Mutated /\ geoOp.op = "setGeometry" /\ geoOp.w = Item
  /\ geoOp.x = 0 /\ geoOp.y = 0
  /\ wsize[Item].x1 = 1 /\ wsize[Item].y1 = 1
  /\ wsize[Win].x1 = 0 /\ wsize[Win].y1 = 0

\* The widgets whose layout pass ran in the last operation
Adjusted == {w \in LayoutWidgets : LogHasTo(log, "adjustSize", w)}
\* The whole terminal
FullTerminal == FRect(0, 0, Width(Root) - 1, Height(Root) - 1)
\* The outer rectangle of w in terminal coordinates
OuterRect(w) ==
  FRect(TermX(w) - 1, TermY(w) - 1,
        TermX(w) + Width(w) - 2, TermY(w) + Height(w) - 2)
\* The offset the four cases give to w
ExpectedOffset(w) ==
  IF w = Win
  THEN IF ignore_padding[w] /\ ~dialog THEN FullTerminal
       ELSE client_offset[Root]
  ELSE IF ignore_padding[w] THEN OuterRect(parentWidget(w))
       ELSE client_offset[parentWidget(w)]
\* The requested rectangle of w needs no correction within its offset.
RequestedFits(w) ==
  /\ offset[w].x1 + wsize[w].x1 + rectWidth(wsize[w]) - padding[w].right
       <= offset[w].x2 + 2
  /\ offset[w].y1 + wsize[w].y1 + rectHeight(wsize[w]) - padding[w].bottom
       <= offset[w].y2 + 2
  /\ offset[w].x1 + rectWidth(wsize[w]) - 1 <= offset[w].x2
  /\ offset[w].y1 + rectHeight(wsize[w]) - 1 <= offset[w].y2
  /\ rectWidth(wsize[w]) >= size_hints[w].min_width
  /\ rectHeight(wsize[w]) >= size_hints[w].min_height
\* The widgets the overflow correction leaves alone
Uncorrected(w) == w = Win \/ child_print_area[w] \/ RequestedFits(w)

\* C18: after the layout pass of a widget other than the root its offset is
\* the whole terminal for a window that ignores padding and is no dialog,
\* the root's client offset for any other window, the outer rectangle of
\* the parent for an ordinary widget that ignores padding and the parent's
\* client offset for any other ordinary widget; and its adjusted rectangle
\* is its requested rectangle, unless the overflow correction applies.
C18_OffsetAfterAdjustSize ==
  ~hung => \A w \in Adjusted \ {Root} :
             /\ offset[w] = ExpectedOffset(w)
             /\ Uncorrected(w) => adjust_wsize[w] = wsize[w]

\* The layout pass of a window that ignores padding ran while the root has
\* padding: the window got the whole terminal, not the root's client offset,
\* and its adjusted rectangle is the requested one.
C18_Witness ==
  /\ ~hung /\ Win \in Adjusted
  /\ ignore_padding[Win] /\ ~dialog
  /\ offset[Win] = FullTerminal
  /\ client_offset[Root] # FullTerminal
  /\ pre.offset[Win] # offset[Win]
  /\ adjust_wsize[Win] = wsize[Win]

\* The geometry of w is what it was before the operation.
Untouched(w) ==
  /\ offset[w] = pre.offset[w]
  /\ adjust_wsize[w] = pre.adjust_wsize[w]
  /\ client_offset[w] = pre.client_offset[w]

\* C19: the layout pass of a widget runs the layout pass of each of its
\* children that is not a window, and so on downwards; an operation on the
\* box, the window's parent, runs no layout pass of the window and leaves
\* the offset, the adjusted rectangle and the client offset of the window
\* and of its child as they were.
C19_RecursionSkipsWindows ==
  ~hung =>
    /\ \A w \in Adjusted : \A i \in 1..Len(childWidgets(w)) :
         childWidgets(w)[i] # Win => childWidgets(w)[i] \in Adjusted
    /\ geoOp.w = Box =>
         /\ Win \notin Adjusted /\ Pane \notin Adjusted
         /\ Untouched(Win) /\ Untouched(Pane)

\* The layout pass of the box ran and changed the box and its item; the
\* window, whose offset is not the one its own layout pass would give it,
\* was passed over.
C19_Witness ==
  /\ ~hung /\ geoOp.w = Box /\ Adjusted = {Box, Item}
  /\ ~Untouched(Box) /\ ~Untouched(Item)
  /\ offset[Win] # ExpectedOffset(Win)
  /\ Untouched(Win)

\* The widgets the overflow correction ran on in the last operation
Corrected == {w \in Adjusted : w # Win /\ ~child_print_area[w]}
\* w does not reach past the right and bottom edge of its offset, and is
\* not wider or higher than it.
FitsHorizontally(w) ==
  /\ (TermX(w) + Width(w) - 1) - padding[w].right <= offset[w].x2 + 1
  /\ offset[w].x1 + Width(w) - 1 <= offset[w].x2
FitsVertically(w) ==
  /\ (TermY(w) + Height(w) - 1) - padding[w].bottom <= offset[w].y2 + 1
  /\ offset[w].y1 + Height(w) - 1 <= offset[w].y2

\* C20: after the layout pass of a widget that is not a window and owns no
\* child print area, its left and top edge are at least 1, and it fits its
\* offset horizontally unless its width is the minimum width hint or 1, and
\* vertically unless its height is the minimum height hint or 1.
C20_KeptOnScreen ==
  ~hung => \A w \in Corrected :
    /\ adjust_wsize[w].x1 >= 1 /\ adjust_wsize[w].y1 >= 1
    /\ FitsHorizontally(w) \/ Width(w) = Max(1, size_hints[w].min_width)
    /\ FitsVertically(w) \/ Height(w) = Max(1, size_hints[w].min_height)

\* The window has the scenario's requested rectangle and the root no padding.
ScenarioWindow ==
  wsize[Win] = ScenarioRect /\ padding[Root] = NoPadding
\* The last operation was the root's resize() for the shrink from 80 x 24
\* to 10 x 10, with the scenario's window laid out before it.
AfterShrink ==
  /\ ~hung /\ geoOp.op = "resize" /\ geoOp.w = Root
  /\ pre.desktop = ScenarioTerm /\ desktop = ShrunkTerm
  /\ ScenarioWindow /\ pre.adjust_wsize[Win] = ScenarioRect
\* The client offset of the window after its layout pass in the scenario
ScenarioClientOffset ==
  (~hung /\ Win \in Adjusted /\ ScenarioWindow) =>
    client_offset[Win] = FRect(4 + padding[Win].left, 4 + padding[Win].top,
                               23 - padding[Win].right,
                               13 - padding[Win].bottom)
\* The window lies within the terminal.
WindowOnTerminal ==
  /\ TermX(Win) >= 1 /\ TermX(Win) + Width(Win) - 1 <= desktop.w
  /\ TermY(Win) >= 1 /\ TermY(Win) + Height(Win) - 1 <= desktop.h

\* C21 as stated: in the scenario the client offset of the window after its
\* layout pass is (4,4)-(23,13) minus its padding, and after the shrink to
\* 10 x 10 and the root's resize() the window is moved and shrunk so that
\* it lies within the terminal, its size not below its minimum size hints.
C21_WindowKeptOnTerminal ==
  /\ ScenarioClientOffset
  /\ AfterShrink =>
       /\ WindowOnTerminal
       /\ Width(Win) >= size_hints[Win].min_width
       /\ Height(Win) >= size_hints[Win].min_height

\* C21 amended: in the scenario the client offset of the window after its
\* layout pass is (4,4)-(23,13) minus its padding, and after the shrink to
\* 10 x 10 and the root's resize() the layout pass of the window has run,
\* its offset is the new one and its adjusted rectangle is still the
\* requested (5,5) 20 x 10: a window is neither moved nor shrunk.
C21_WindowKeepsRequested ==
  /\ ScenarioClientOffset
  /\ AfterShrink =>
       /\ Win \in Adjusted
       /\ offset[Win] = ExpectedOffset(Win)
       /\ adjust_wsize[Win] = ScenarioRect

\* The shrink happened, and the window reaches past the 10 x 10 terminal.
C21_Witness ==
  /\ AfterShrink /\ Win \in Adjusted
  /\ pre.client_offset[Win].x2 = 23 - padding[Win].right
  /\ offset[Win].x2 = 9
  /\ ~WindowOnTerminal

\* C22: every run of insufficientSpaceAdjust ends: no operation enters a
\* move or shrink loop that it never leaves.
C22_AdjustTerminates == ~hung

\* ---- print-area claims
\* The nodes from n upwards that own a buffer
OwnersAbove(n) == {m \in 0..n : vwin[m] \/ child_area[m]}
NearestOwner(n) == CHOOSE m \in OwnersAbove(n) : \A k \in OwnersAbove(n) : k <= m
\* The last call resolved the print area by walking the chain.
Walked == paCall.op = "getPrintArea" /\ paCall.walk # <<>>

\* C23: a resolution that walks the chain returns the buffer of the nearest
\* node, from the widget itself upwards, that owns a window buffer or a
\* child print area, and the desktop buffer only if no node up to the
\* parentless one owns a buffer; so a widget three levels below a window,
\* with no owner in between, gets the window's buffer.
C23_NearestOwnedBuffer ==
  Walked =>
    IF OwnersAbove(paCall.n) = {} THEN paCall.area = VDesktop
    ELSE /\ paCall.area.of = NearestOwner(paCall.n)
         /\ paCall.area.kind =
              IF vwin[NearestOwner(paCall.n)] THEN "vwin" ELSE "child"

\* The widget three levels below the window 1 resolved to its buffer.
C23_Witness ==
  /\ Walked /\ paCall.n = 4 /\ OwnersAbove(4) = {1} /\ vwin[1]
  /\ paCall.walk = <<4, 3, 2, 1>>
  /\ paCall.area = [kind |-> "vwin", of |-> 1]

\* C24: a resolution that returns a window buffer or a child print area
\* leaves it as the current print area of the widget, and one that returns
\* the desktop buffer leaves the widget without current print area; a
\* resolution on a widget with a current print area returns it, visits no
\* node and changes nothing, one on a widget without it walks the chain.
C24_ResolutionCached ==
  [][ paCall'.op = "getPrintArea" =>
        /\ IF paCall'.area = VDesktop
           THEN print_area'[paCall'.n] = NoArea
           ELSE print_area'[paCall'.n] = paCall'.area
        /\ IF print_area[paCall'.n] # NoArea
           THEN /\ paCall'.area = print_area[paCall'.n]
                /\ paCall'.walk = <<>>
                /\ print_area' = print_area
           ELSE paCall'.walk # <<>> ]_vars

\* A resolution answered from the current print area, a window buffer
\* found further up by an earlier call.
C24_Witness ==
  /\ paCall.op = "getPrintArea" /\ paCall.walk = <<>>
  /\ paCall.area.kind = "vwin" /\ paCall.area.of < paCall.n
  /\ print_area[paCall.n] = paCall.area

\* C25: a widget whose print area is resolved reports itself as user of a
\* child print area exactly when that buffer is the child print area of a
\* widget above it, at any depth, that is no window.
C25_ChildPrintAreaUser ==
  (paCall.op = "isChildPrintArea" /\ print_area[paCall.n] # NoArea) =>
    (paCall.child <=> /\ print_area[paCall.n].kind = "child"
                      /\ print_area[paCall.n].of < paCall.n
                      /\ ~vwin[print_area[paCall.n].of])

\* ---- visibility claims
\* The widgets a show() on w reaches and marks: w if its visibility flag is
\* on, and from there every child that is not hidden.
RECURSIVE Reached(_)
Reached(w) ==
  IF ~visible[w] THEN {}
  ELSE {w} \cup UNION {Reached(Children(w)[i]) :
                         i \in {j \in 1..Len(Children(w)) :
                                  ~hidden[Children(w)[j]]}}
Count(what) == Cardinality({i \in 1..Len(log) : log[i].ev = what})

\* C26: show() (its handlers doing nothing) on a widget whose visibility
\* flag is on leaves it shown and not hidden, and so every widget reached
\* from it through children that are not hidden (a reached child whose
\* visibility flag is off is left as it is, with its subtree), and changes
\* the flags of no other widget; on a widget whose visibility flag is off
\* it changes no flag and no process-wide state and calls nothing.
C26_ShowMarksSubtree ==
  [][ (lastOp'.op = "show" /\ lastOp'.arg = "") =>
        IF visible[lastOp'.w]
        THEN /\ lastOp'.w \in Reached(lastOp'.w)
             /\ \A x \in Widgets :
                  IF x \in Reached(lastOp'.w)
                  THEN shown'[x] /\ ~hidden'[x]
                  ELSE shown'[x] = shown[x] /\ hidden'[x] = hidden[x]
             /\ visible' = visible
        ELSE /\ UNCHANGED <<flagVars, globalVars>>
             /\ log' = <<>> ]_vars

\* The parent was shown while its first child was hidden: the first child
\* stays hidden and not shown, the second is shown.
C26_Witness ==
  /\ lastOp.op = "show" /\ lastOp.arg = "" /\ lastOp.w = Par
  /\ shown[Par] /\ hidden["w1"] /\ ~shown["w1"] /\ shown["w2"]

\* C27: a show() on a widget whose visibility flag is on, whatever the
\* handlers of the show events call, starts the batched terminal update
\* once, finishes it once and flushes once, each on behalf of the widget
\* show() was called on, and leaves show_root_widget null.
C27_OneBatchPerShow ==
  [][ (lastOp'.op = "show" /\ visible[lastOp'.w]) =>
        /\ Count("startTerminalUpdate")' = 1
        /\ Count("finishTerminalUpdate")' = 1
        /\ Count("flush")' = 1
        /\ \A i \in 1..Len(log') :
             log'[i].ev \in {"startTerminalUpdate", "finishTerminalUpdate",
                             "flush"} => log'[i].to = lastOp'.w
        /\ show_root_widget' = NoWidget ]_vars

\* C28: redraw() on any widget leaves redraw_root_widget null, and on a
\* shown widget (or the root) it flushes.
C28_RedrawRootCleared ==
  [][ lastOp'.op = "redraw" =>
        /\ redraw_root_widget' = NoWidget
        /\ (shown[lastOp'.w] \/ isRootWidget(lastOp'.w)) =>
             Count("flush")' = 1 ]_vars

\* ---- accelerator claims
\* The table the spec gives the target T: that of its nearest window, or
\* the root's if it has none or that window is the status or menu bar.
TableOf(T) ==
  IF getWindowWidget(T) = NoWidget \/ getWindowWidget(T) \in {statusbar, menubar}
  THEN Root ELSE getWindowWidget(T)
Holds(list, T) == \E i \in 1..Len(list) : list[i].object = T
RECURSIVE Without(_, _)
Without(list, T) ==
  IF list = <<>> THEN <<>>
  ELSE IF Head(list).object = T THEN Without(Tail(list), T)
  ELSE <<Head(list)>> \o Without(Tail(list), T)

\* C29: addAccelerator(key, T) appends an entry for T to the table of T's
\* nearest window (the root's if T has none or it is the status bar or the
\* menu bar) and changes no other table; after delAccelerator(T), on
\* whichever widget it is called, no table holds an entry for T and every
\* table has kept its entries for other targets, in order.
C29_RemovalMirrorsRegistration ==
  [][ /\ lastOp'.op = "addAccelerator" =>
           /\ \E key \in AccKeys :
                accelerator_list'[TableOf(lastOp'.arg)] =
                  Append(accelerator_list[TableOf(lastOp'.arg)],
                         [key |-> key, object |-> lastOp'.arg])
           /\ \A w \in Widgets \ {TableOf(lastOp'.arg)} :
                accelerator_list'[w] = accelerator_list[w]
      /\ lastOp'.op = "delAccelerator" =>
           \A w \in Widgets :
             /\ ~Holds(accelerator_list'[w], lastOp'.arg)
             /\ accelerator_list'[w] =
                  Without(accelerator_list[w], lastOp'.arg) ]_vars

\* ---- destruction claims
\* C30: after the destructor of a widget, the focus pointer, the clicked
\* widget, the window-focus pointer of its window and the pending-close
\* list do not reference it.
C30_DestroyedUnreferenced ==
  lastOp.op = "destroy" =>
    /\ focus_widget # lastOp.w
    /\ clicked_widget # lastOp.w
    /\ \A win \in Widgets \ {lastOp.w} :
         win = getWindowWidget(lastOp.w) =>
           window_focus_widget[win] # lastOp.w
    /\ \A i \in 1..Len(close_widget) : close_widget[i] # lastOp.w

\* ---- focus pointer and flags
\* C34: whenever an operation has returned, the focus pointer is null or
\* designates a widget whose focus flag is set, and every widget whose
\* focus flag is set is the one the pointer designates.
C34_PointerAndFlagsAgree ==
  ~hung =>
    /\ focus_widget # NoWidget => focus[focus_widget]
    /\ \A w \in Widgets : focus[w] => focus_widget = w

\* C35: focusNextChild and focusPrevChild return, whatever the flags of the
\* parent's children are.
C35_TraversalTerminates ==
  [][IsTraversal(lastOp') => ~hung']_vars

\* C36: focusNextChild and focusPrevChild return true only if the focus
\* pointer moved to a sibling other than the caller whose focus flag is
\* then set; in particular they return false when the focus-out was
\* ignored by the caller's handler or the parent accepted the
\* child-focus-out.
C36_TrueOnlyIfTransferred ==
  [][ (IsTraversal(lastOp') /\ ~hung' /\ ret') =>
        /\ focus_widget' # lastOp'.w
        /\ focus_widget' \in Siblings
        /\ focus'[focus_widget']
        /\ NoVeto(log') ]_vars

\* ---- visibility flags
\* C37: no widget has both its hidden flag and its shown flag set.
C37_HiddenExcludesShown ==
  \A w \in Widgets : ~(hidden[w] /\ shown[w])

\* ---- pending-close list
\* C38: no widget is twice in the pending-close list, every widget in it
\* is neither modal nor the main widget and had its close event accepted,
\* and a close() whose close event was not accepted returns false and
\* changes neither the flags nor the list.
C38_ClosePendingOnce ==
  /\ \A i, j \in 1..Len(close_widget) :
       close_widget[i] = close_widget[j] => i = j
  /\ \A i \in 1..Len(close_widget) :
       ~modal[close_widget[i]] /\ close_widget[i] # main_widget
  /\ (lastOp.op = "close" /\ lastOp.arg = "false") => ret = FALSE

\* ---- progress bar
\* C39: the percentage is NOT_SET or within 0..100; setPercentage with
\* NOT_SET stores NOT_SET, with a value above 100 stores 100, with a value
\* not above the percentage set changes nothing, and with any other value
\* stores it, so that a step lowers a set percentage only to NOT_SET and
\* only by reset() or setPercentage(NOT_SET).
C39_PercentageOnlyRises ==
  [][ /\ percentage' \in 0..100 \cup {NOT_SET}
      /\ lastOp'.op = "setPercentage" =>
           IF lastOp'.arg = NOT_SET THEN percentage' = NOT_SET
           ELSE IF lastOp'.arg > 100 THEN percentage' = 100
           ELSE IF percentage # NOT_SET /\ lastOp'.arg <= percentage
           THEN percentage' = percentage
           ELSE percentage' = lastOp'.arg
      /\ (percentage # NOT_SET /\ percentage' # NOT_SET) =>
           percentage' >= percentage
      /\ (percentage # NOT_SET /\ percentage' = NOT_SET) =>
           \/ lastOp'.op = "reset"
           \/ lastOp'.op = "setPercentage" /\ lastOp'.arg = NOT_SET ]_vars

\* A setPercentage with a smaller value has left the percentage at 50.
C39_Witness ==
  /\ lastOp.op = "setPercentage" /\ lastOp.arg = 20
  /\ percentage = 50

\* ---- construction
\* C32: the construction of a parentless widget while a root object exists
\* ends with the error thrown, the root object is the one it was, and the
\* window, dialog, always-on-top and pending-close lists, the modal dialog
\* counter and the other process-wide state are what they were.
C32_SecondRootRejected ==
  [][ (lastOp'.op = "construct" /\ lastOp'.arg = NoWidget
         /\ rootObject # NoWidget) =>
        /\ constructed'.thrown
        /\ rootObject' = rootObject
        /\ UNCHANGED <<widget_lists, close_widget, modal_dialog_counter>>
        /\ UNCHANGED <<globalVars, statusbar>> ]_vars

\* A second parentless widget was rejected while a modal dialog was open, a
\* window was registered, a widget was pending to be closed and a redraw
\* root was set.
C32_Witness ==
  /\ lastOp.op = "construct" /\ lastOp.arg = NoWidget
  /\ constructed.thrown
  /\ rootObject = Root
  /\ modal_dialog_counter = 1
  /\ widget_lists.window_list # <<>>
  /\ close_widget # <<>>
  /\ redraw_root_widget # NoWidget

\* ---- first and last child
\* The child passes the test of the search for the first or last child.
Candidate(c) == active[c] /\ focusable[c] /\ ~isMenuWidget(c)
\* The widget has a candidate among its children.
HasCandidate(w) ==
  \E i \in 1..Len(Children(w)) : Candidate(Children(w)[i])
\* A window with children none of which is a candidate: the search passes
\* over it.
BarrenWindow(c) ==
  isWindowWidget(c) /\ hasChildren(c) /\ ~HasCandidate(c)
\* The children of w the search may choose, in order.
Choosable(w) ==
  {i \in 1..Len(Children(w)) :
     Candidate(Children(w)[i]) /\ ~BarrenWindow(Children(w)[i])}
\* The widget the search from w ends on: the deepest candidate along the
\* first (last) choosable path.
RECURSIVE Deepest(_, _)
Deepest(w, first) ==
  LET i == IF first
           THEN CHOOSE k \in Choosable(w) : \A j \in Choosable(w) : k <= j
           ELSE CHOOSE k \in Choosable(w) : \A j \in Choosable(w) : j <= k
      c == Children(w)[i]
  IN IF HasCandidate(c) THEN Deepest(c, first) ELSE c
IsFirstLast(o) == o.op \in {"focusFirstChild", "focusLastChild"}

\* C31: focusFirstChild (focusLastChild) returns true exactly if the widget
\* has a child that is enabled, accepts focus, is no menu and is no window
\* with children but without such a child; the focus pointer is then on the
\* deepest such widget along the first (last) such path, with its focus
\* flag set; and a window child with children but without such a child
\* that did not hold the focus does not hold it afterwards.
C31_FocusOnDeepestLeaf ==
  [][ IsFirstLast(lastOp') =>
        /\ ret' = (Choosable(lastOp'.w) # {})
        /\ ret' =>
             /\ focus_widget' =
                  Deepest(lastOp'.w, lastOp'.op = "focusFirstChild")
             /\ focus'[focus_widget']
        /\ \A i \in 1..Len(Children(lastOp'.w)) :
             (BarrenWindow(Children(lastOp'.w)[i])
                /\ focus_widget # Children(lastOp'.w)[i]
                /\ ~focus[Children(lastOp'.w)[i]])
               => /\ focus_widget' # Children(lastOp'.w)[i]
                  /\ ~focus'[Children(lastOp'.w)[i]] ]_vars

\* ---- flat border
\* C33: setDoubleFlatLine with a position past the end of the mask writes
\* nothing, and drawFlatBorder and clearFlatBorder read no mask cell at or
\* after the end of its mask, whatever operations resized the widget or
\* its ancestors before.
C33_MaskAccessInRange ==
  [][ /\ geoOp'.op \in {"drawFlatBorder", "clearFlatBorder"} =>
           ~LogHas(log', "readPastEnd")
      /\ (geoOp'.op = "setDoubleFlatLine"
            /\ \A side \in Sides :
                 geoOp'.x > double_flatline_mask[geoOp'.w][side]) =>
           (log' = <<>> /\ UNCHANGED geoVars) ]_vars

====
